---- MODULE Spec2Model ----
(***************************************************************************)
(* Rule-auditor scoring core: the event coverage tracer                    *)
(* (scoring/event_coverage.py), the alert history analyzer and the replay  *)
(* driver (scoring/simulate_rule.py), the important-time selector          *)
(* (scoring/utils.py) and the score combiner (scoring/scoring.py).         *)
(*                                                                         *)
(* Instants are integers: seconds since 1970-01-01 00:00 GMT.  A timezone  *)
(* is a fixed offset in seconds east of GMT.  A float score n/d*100 is the *)
(* exact ratio <<100*n, d>>; two ratios are compared by cross              *)
(* multiplication.                                                         *)
(***************************************************************************)
EXTENDS Integers, Sequences, FiniteSets, TLC

VARIABLES ec, am, sel, rc, rp, sr, pa, pr, tz, sg, wf

vars == <<ec, am, sel, rc, rp, sr, pa, pr, tz, sg, wf>>

----------------------------------------------------------------------------
(* Bounds of the model *)

MaxEvents == 3

MaxSelEvents == 3

----------------------------------------------------------------------------
(* Time and numbers *)

SecondsPerDay == 86400

\* Python's None in an Optional[int] field (seconds from midnight are >= 0)
None == -1

\* datetime.astimezone(tz).date(): the local calendar day of an instant
LocalDate(t, off) == (t + off) \div SecondsPerDay

\* tz.localize(datetime.combine(day, datetime.min.time()) + timedelta(seconds=secs))
LocalizedDayTime(day, secs, off) == day * SecondsPerDay + secs - off

\* datetime.strftime("%A"); 1970-01-01 was a Thursday
WeekdayName(day) ==
    <<"Monday", "Tuesday", "Wednesday", "Thursday", "Friday", "Saturday", "Sunday">>[((day + 3) % 7) + 1]

\* n / d * 100 as an exact ratio
Percent(n, d) == <<100 * n, d>>

Hundred == <<100, 1>>

RatEq(a, b) == a[1] * b[2] = b[1] * a[2]

RatLeq(a, b) == a[1] * b[2] <= b[1] * a[2]

\* sorted(xs, key=...): Python's sort is stable.  keys[k] is the key of s[k];
\* SortedIdx is the order in which the positions 1..n come out.
RECURSIVE InsertIdx(_, _, _)
InsertIdx(i, idx, keys) ==
    IF idx = <<>> THEN <<i>>
    ELSE IF keys[i] < keys[Head(idx)] THEN <<i>> \o idx
         ELSE <<Head(idx)>> \o InsertIdx(i, Tail(idx), keys)

RECURSIVE SortedIdx(_, _)
SortedIdx(n, keys) ==
    IF n = 0 THEN <<>> ELSE InsertIdx(n, SortedIdx(n - 1, keys), keys)

SortedBy(s, keys) == [k \in 1..Len(s) |-> s[SortedIdx(Len(s), keys)[k]]]

----------------------------------------------------------------------------
(* The rule object's per-instant caches and the global time override.  The  *)
(* rule evaluation (rule_preprocessor.preprocess, monitor.execute) belongs  *)
(* to the monitoring SDK: it reads the overridden clock and the cached      *)
(* fields of the rule, and it may store what it derived for the instant in  *)
(* them.                                                                    *)

\* a rule object nothing has been cached in; seen is what the latest
\* evaluation found on entry (now = None: nothing was evaluated yet)
RcInit ==
    [translated_pattern |-> None, translated_partition |-> None,
     rule_start_timestamp |-> None,
     seen |-> [now |-> None, translated_pattern |-> None,
               translated_partition |-> None, rule_start_timestamp |-> None]]

\* with TimeTraveler(t): the clock and the cached fields an evaluation finds
Observe(c, t) ==
    [now |-> t, translated_pattern |-> c.translated_pattern,
     translated_partition |-> c.translated_partition,
     rule_start_timestamp |-> c.rule_start_timestamp]

\* one evaluation under TimeTraveler(t); caches: it stored its derivations
\* for t in the rule
Evaluate(c, t, caches) ==
    [c EXCEPT !.seen = Observe(c, t),
              !.translated_pattern = IF caches THEN t ELSE @,
              !.translated_partition = IF caches THEN t ELSE @,
              !.rule_start_timestamp = IF caches THEN t ELSE @]

\* event_coverage.py lines 58-61
TracerReset(c) ==
    [c EXCEPT !.translated_pattern = None, !.translated_partition = None]

\* simulate_rule.py lines 121-125
ReplayReset(c) ==
    [c EXCEPT !.translated_pattern = None, !.translated_partition = None,
              !.rule_start_timestamp = None]

----------------------------------------------------------------------------
(* Event coverage tracer: scoring/event_coverage.py *)

GraceSeconds == 7200

\* str(e) of the RuleDeferredException raised by the external rule check
ReasonTimeWindow == "Rule does not fall within TimeWindow"
ReasonHoliday == "Rule deferred: today is a holiday"
ReasonWeekday == "Rule does not fall within WeekdayWindow"
ReasonOther == "Rule deferred: data not ready"

DeferReasons == {ReasonTimeWindow, ReasonHoliday, ReasonWeekday, ReasonOther}

\* needle in str(e)
Contains(reason, needle) ==
    \/ needle = "fall within TimeWindow" /\ reason = ReasonTimeWindow
    \/ needle = "holiday" /\ reason = ReasonHoliday
    \/ needle = "fall within WeekdayWindow" /\ reason = ReasonWeekday

\* load_holidays_file(): country code -> local days that are holidays
HolidaysFile == [US |-> {0}]

\* the rules the tracer is run on: start_time / end_time in seconds from
\* midnight (or None), timezone offset, country ("" when unset)
TraceRules ==
    { [start_time |-> 32400, end_time |-> 61200, tz |-> 0, country |-> ""],
      [start_time |-> 36000, end_time |-> 61200, tz |-> 0, country |-> "US"],
      [start_time |-> 36001, end_time |-> 61200, tz |-> 0, country |-> ""],
      [start_time |-> 79201, end_time |-> 21600, tz |-> 0, country |-> ""],
      [start_time |-> 32400, end_time |-> 61200, tz |-> 28800, country |-> "US"],
      [start_time |-> None, end_time |-> None, tz |-> 0, country |-> ""] }

TraceEvents ==
    { [file_name |-> "a.csv", timestamp |-> 28800],
      [file_name |-> "b.csv", timestamp |-> 43200],
      [file_name |-> "a.csv", timestamp |-> 72000] }

EventLists == UNION { [1..n -> TraceEvents] : n \in 0..MaxEvents }

EventDetail(event, covered, holiday, reason) ==
    [file_name |-> event.file_name, timestamp |-> event.timestamp,
     is_covered |-> covered, is_holiday |-> holiday, reason |-> reason]

RawReason(e) == [text |-> e, args |-> <<>>]

EcInit(rule, events) ==
    [rule |-> rule, events |-> events, i |-> 1, pc |-> "loop",
     total |-> 0, covered |-> 0,
     num_holidays_inrange |-> {},
     num_event_in_holiday |-> 0, num_event_in_holiday_covered |-> 0,
     event_details |-> <<>>, metrics |-> <<>>]

EcIdle == [EcInit([start_time |-> None, end_time |-> None, tz |-> 0, country |-> ""], <<>>)
              EXCEPT !.pc = "idle"]

\* is_holiday = bool(rule.country and holidays.get(rule.country_code).get(day))
IsHoliday(rule, day) == rule.country # "" /\ day \in HolidaysFile[rule.country]

\* the grace test of the TimeWindow branch (lines 78-79)
Grace(mtime, start_time_dt, end_time_dt) ==
    mtime + GraceSeconds >= start_time_dt \/ mtime + GraceSeconds >= end_time_dt

\* the try body succeeded (lines 50-68): no EventDetail is appended
\* mutant: the passing branch forgets total += 1
CoveredStepMutant(e, event) ==
    LET day == LocalDate(event.timestamp, e.rule.tz)
        hol == IsHoliday(e.rule, day)
    IN [e EXCEPT !.i = @ + 1,
                 !.num_holidays_inrange =
                     IF hol THEN @ \cup {LocalDate(event.timestamp, 0)} ELSE @,
                 !.num_event_in_holiday_covered = IF hol THEN @ + 1 ELSE @,
                 !.covered = @ + 1]

CoveredStep(e, event) ==
    LET day == LocalDate(event.timestamp, e.rule.tz)
        hol == IsHoliday(e.rule, day)
    IN [e EXCEPT !.i = @ + 1, !.total = @ + 1,
                 !.num_holidays_inrange =
                     IF hol THEN @ \cup {LocalDate(event.timestamp, 0)} ELSE @,
                 !.num_event_in_holiday_covered = IF hol THEN @ + 1 ELSE @,
                 !.covered = @ + 1]

\* except RuleDeferredException (lines 69-121), rule.start_time and
\* rule.end_time set
DeferredStep(e, event, reason) ==
    LET mtime == event.timestamp
        day == LocalDate(mtime, e.rule.tz)
        start_time_dt == LocalizedDayTime(day, e.rule.start_time, e.rule.tz)
        end_time_dt == LocalizedDayTime(day, e.rule.end_time, e.rule.tz)
        next == [e EXCEPT !.i = @ + 1, !.total = @ + 1]
    IN IF Contains(reason, "fall within TimeWindow")
       THEN IF Grace(mtime, start_time_dt, end_time_dt)
            THEN [next EXCEPT
                    !.covered = @ + 1,
                    !.event_details = Append(@, EventDetail(event, TRUE, FALSE,
                        [text |-> "covered within 2 hours of start/end time",
                         args |-> <<mtime, start_time_dt, end_time_dt>>]))]
            ELSE [next EXCEPT
                    !.event_details = Append(@, EventDetail(event, FALSE, FALSE, RawReason(reason)))]
       ELSE IF Contains(reason, "holiday")
       THEN [next EXCEPT
               !.num_event_in_holiday = @ + 1,
               !.event_details = Append(@, EventDetail(event, FALSE, TRUE, RawReason(reason)))]
       ELSE IF Contains(reason, "fall within WeekdayWindow")
       THEN [next EXCEPT
               !.event_details = Append(@, EventDetail(event, FALSE, FALSE,
                   [text |-> reason, args |-> <<WeekdayName(day)>>]))]
       ELSE [next EXCEPT
               !.event_details = Append(@, EventDetail(event, FALSE, FALSE, RawReason(reason)))]

\* an exception that is no RuleDeferredException leaves event_coverage
RaisedStep(e) == [e EXCEPT !.total = @ + 1, !.pc = "raised"]

\* lines 123-142
BuildMetrics(e) ==
    LET hol == IF e.num_event_in_holiday = 0 THEN 1 ELSE e.num_event_in_holiday
        holcov == IF e.num_event_in_holiday = 0 THEN 1 ELSE e.num_event_in_holiday_covered
    IN [total_events |-> e.total,
        covered_events |-> e.covered,
        coverage_score |-> IF e.total = 0 THEN <<0, 1>> ELSE Percent(e.covered, e.total),
        total_holiday_events |-> hol,
        covered_holiday_events |-> holcov,
        holiday_coverage_score |-> IF e.total = 0 THEN <<0, 1>> ELSE Percent(holcov, hol),
        events |-> SortedBy(e.event_details,
                    [k \in 1..Len(e.event_details) |-> e.event_details[k].timestamp])]

\* rule_preprocessor.preprocess(rule) passes at the event's time
TraceCovered ==
    /\ ec.pc = "loop" /\ ec.i <= Len(ec.events)
    /\ ec' = CoveredStep(ec, ec.events[ec.i])
    /\ \E caches \in BOOLEAN :
          rc' = Evaluate(TracerReset(rc), ec.events[ec.i].timestamp, caches)
    /\ UNCHANGED <<am, sel, rp, sr, pa, pr, tz, sg, wf>>

\* the check raises RuleDeferredException(reason); building start_time_dt
\* from a start_time of None raises TypeError inside the handler
TraceDeferred ==
    /\ ec.pc = "loop" /\ ec.i <= Len(ec.events)
    /\ \E reason \in DeferReasons :
          ec' = IF ec.rule.start_time = None \/ ec.rule.end_time = None
                THEN RaisedStep(ec)
                ELSE DeferredStep(ec, ec.events[ec.i], reason)
    /\ \E caches \in BOOLEAN :
          rc' = Evaluate(TracerReset(rc), ec.events[ec.i].timestamp, caches)
    /\ UNCHANGED <<am, sel, rp, sr, pa, pr, tz, sg, wf>>

\* the check raises anything else
TraceUnexpected ==
    /\ ec.pc = "loop" /\ ec.i <= Len(ec.events)
    /\ ec' = RaisedStep(ec)
    /\ \E caches \in BOOLEAN :
          rc' = Evaluate(TracerReset(rc), ec.events[ec.i].timestamp, caches)
    /\ UNCHANGED <<am, sel, rp, sr, pa, pr, tz, sg, wf>>

\* the loop is over: the scores and the sorted details
TraceFinish ==
    /\ ec.pc = "loop" /\ ec.i > Len(ec.events)
    /\ ec' = [ec EXCEPT !.pc = "done", !.metrics = BuildMetrics(ec)]
    /\ UNCHANGED <<am, sel, rc, rp, sr, pa, pr, tz, sg, wf>>


----------------------------------------------------------------------------
(* Alert history analyzer: scoring/simulate_rule.py *)

MaxEntries == 4

MaxQuiet == 9

SnapSeconds == 7200

\* len(average_durations) / len(resources) > 0.1, as RareDen * |D| > |R|
RareDen == 10

AlertTimes == {0, 3600, 10800}

Severities == {"ok", "critical"}

\* resources whose alerts are created entry by entry
ActiveResources == {1, 2}

\* a resource whose alert has no history at all (line 210)
EmptyResource == 3

\* resources that were only ever seen "ok": 11, 12, ...
QuietResource(k) == 10 + k

\* the repositories a run starts from: <<number of quiet resources, whether
\* an alert without history is present>>
Seeds == {<<0, FALSE>>, <<0, TRUE>>, <<MaxQuiet - 1, FALSE>>, <<MaxQuiet, TRUE>>}

HistoryEntry(t, sev) == [update_time |-> t, severity |-> sev]

AlertDetail(resource, severity, open_time, close_time, duration) ==
    [resource |-> resource, severity |-> severity, open_time |-> open_time,
     close_time |-> close_time, duration |-> duration]

\* mutant: the history is walked as stored
SortedHistoryMutant(history) == history

\* sorted(alert.history, key=lambda x: x['update_time'])
SortedHistory(history) ==
    SortedBy(history, [k \in 1..Len(history) |-> history[k].update_time])

\* mutant: the last stored entry is taken for the latest
LatestEntryMutant(history) == history[Len(history)]

\* max(alert.history, key=lambda x: x['update_time']): the first entry among
\* those with the greatest update_time
LatestEntry(history) ==
    history[CHOOSE k \in 1..Len(history) :
                /\ \A j \in 1..Len(history) : history[j].update_time <= history[k].update_time
                /\ \A j \in 1..(k - 1) : history[j].update_time < history[k].update_time]

\* resources_with_alerts: resource -> latest severity (lines 164-170)
RECURSIVE LatestSeverities(_, _, _)
LatestSeverities(alerts, k, dict) ==
    IF k > Len(alerts) THEN dict
    ELSE IF alerts[k].history = <<>> THEN LatestSeverities(alerts, k + 1, dict)
    ELSE LatestSeverities(alerts, k + 1,
            [r \in DOMAIN dict \cup {alerts[k].resource} |->
                IF r = alerts[k].resource THEN LatestEntry(alerts[k].history).severity
                ELSE dict[r]])

\* lines 149-184
calculate_open_alert_score(all_alerts) ==
    IF all_alerts = <<>> THEN Hundred
    ELSE LET resources_with_alerts == LatestSeverities(all_alerts, 1, <<>>)
             total_resources == Cardinality(DOMAIN resources_with_alerts)
             non_ok_resources ==
                 Cardinality({r \in DOMAIN resources_with_alerts : resources_with_alerts[r] # "ok"})
         IN IF total_resources = 0 THEN Hundred
            ELSE Percent(total_resources - non_ok_resources, total_resources)

WalkInit ==
    [alert_durations |-> <<>>, alert_details |-> <<>>, open_alerts |-> 0,
     resources |-> {}, current_start |-> None, current_severity |-> ""]

\* lines 218-242: one history entry
WalkEntry(w, resource, entry) ==
    LET w1 ==
          IF w.current_start = None /\ entry.severity # "ok"
          THEN [w EXCEPT !.current_start = entry.update_time,
                         !.current_severity = entry.severity]
          ELSE IF w.current_start # None /\ entry.severity = "ok"
          THEN [w EXCEPT
                  !.alert_durations = Append(@, <<resource, entry.update_time - w.current_start>>),
                  !.alert_details = Append(@, AlertDetail(resource, w.current_severity,
                        w.current_start, entry.update_time, entry.update_time - w.current_start)),
                  !.current_start = None]
          ELSE IF w.current_start = None /\ entry.severity = "ok"
          THEN IF resource \notin w.resources
               THEN [w EXCEPT !.alert_details = Append(@, AlertDetail(resource, entry.severity,
                        entry.update_time, entry.update_time, 0))]
               ELSE w
          ELSE w
    IN [w1 EXCEPT !.resources = @ \cup {resource}]

RECURSIVE WalkHistory(_, _, _, _)
WalkHistory(w, resource, history, k) ==
    IF k > Len(history) THEN w
    ELSE WalkHistory(WalkEntry(w, resource, history[k]), resource, history, k + 1)

\* mutant: the open interval is recorded but not counted
StillOpenMutant(w, resource, history) ==
    LET latest_entry == history[Len(history)]
    IN IF w.current_start # None /\ latest_entry.severity # "ok"
       THEN [w EXCEPT
               !.alert_durations = Append(@, <<resource, latest_entry.update_time - w.current_start>>),
               !.alert_details = Append(@, AlertDetail(resource, w.current_severity,
                     w.current_start, None, latest_entry.update_time - w.current_start))]
       ELSE w

\* lines 244-257: the alert is still open at the end of its history
StillOpen(w, resource, history) ==
    LET latest_entry == history[Len(history)]
    IN IF w.current_start # None /\ latest_entry.severity # "ok"
       THEN [w EXCEPT
               !.alert_durations = Append(@, <<resource, latest_entry.update_time - w.current_start>>),
               !.alert_details = Append(@, AlertDetail(resource, w.current_severity,
                     w.current_start, None, latest_entry.update_time - w.current_start)),
               !.open_alerts = @ + 1]
       ELSE w

\* lines 209-257: one alert of the repository
WalkAlert(w, alert) ==
    IF alert.history = <<>> THEN w
    ELSE LET history == SortedHistory(alert.history)
             w0 == [w EXCEPT !.current_start = None, !.current_severity = ""]
         IN StillOpen(WalkHistory(w0, alert.resource, history, 1), alert.resource, history)

RECURSIVE WalkAlerts(_, _, _)
WalkAlerts(w, alerts, k) ==
    IF k > Len(alerts) THEN w ELSE WalkAlerts(WalkAlert(w, alerts[k]), alerts, k + 1)

RECURSIVE SumDurations(_, _, _)
SumDurations(alert_durations, resource, k) ==
    IF k > Len(alert_durations) THEN 0
    ELSE (IF alert_durations[k][1] = resource THEN alert_durations[k][2] ELSE 0)
         + SumDurations(alert_durations, resource, k + 1)

CountDurations(alert_durations, resource) ==
    Cardinality({k \in 1..Len(alert_durations) : alert_durations[k][1] = resource})

\* mutant: a mean of exactly 7200 seconds is snapped too
SnapsToZeroMutant(sum, n) == sum <= SnapSeconds * n

\* average = sum / n; average < 7200 (line 272)
SnapsToZero(sum, n) == sum < SnapSeconds * n

\* lines 259-276
DurationScore(alert_durations, resources) ==
    LET average_durations == {alert_durations[k][1] : k \in 1..Len(alert_durations)}
        zero == {r \in average_durations :
                    SnapsToZero(SumDurations(alert_durations, r, 1),
                                CountDurations(alert_durations, r))}
    IN IF RareDen * Cardinality(average_durations) > Cardinality(resources)
       THEN Percent(Cardinality(zero), Cardinality(average_durations))
       ELSE Hundred

\* lines 187-281: (duration_score, alert_details, open_alerts)
calculate_alert_duration(all_alerts) ==
    IF all_alerts = <<>>
    THEN [alert_duration_score |-> Hundred, alert_details |-> <<>>, open_alerts |-> 0]
    ELSE LET w == WalkAlerts(WalkInit, all_alerts, 1)
         IN IF w.alert_durations = <<>>
            THEN [alert_duration_score |-> Hundred, alert_details |-> w.alert_details,
                  open_alerts |-> 0]
            ELSE [alert_duration_score |-> DurationScore(w.alert_durations, w.resources),
                  alert_details |-> SortedBy(w.alert_details,
                        [k \in 1..Len(w.alert_details) |-> w.alert_details[k].open_time]),
                  open_alerts |-> w.open_alerts]

\* the number of history entries of the active resources
RECURSIVE ActiveEntries(_, _)
ActiveEntries(alerts, k) ==
    IF k > Len(alerts) THEN 0
    ELSE (IF alerts[k].resource \in ActiveResources THEN Len(alerts[k].history) ELSE 0)
         + ActiveEntries(alerts, k + 1)

\* the in-memory alert repository keyed by resource: a new history entry is
\* merged into the resource's alert, or the alert is created
MergeAlert(alerts, resource, entry) ==
    IF \E k \in 1..Len(alerts) : alerts[k].resource = resource
    THEN [k \in 1..Len(alerts) |->
            IF alerts[k].resource = resource
            THEN [alerts[k] EXCEPT !.history = Append(@, entry)]
            ELSE alerts[k]]
    ELSE Append(alerts, [resource |-> resource, history |-> <<entry>>])

\* the repository before the run adds entries: q resources that were seen
\* "ok" once and, optionally, an alert without history
SeedAlerts(q, withEmpty) ==
    [k \in 1..q |-> [resource |-> QuietResource(k), history |-> <<HistoryEntry(0, "ok")>>]]
    \o (IF withEmpty THEN <<[resource |-> EmptyResource, history |-> <<>>]>> ELSE <<>>)

AmIdle == [pc |-> "idle", alerts |-> <<>>, result |-> <<>>]

\* alert_manager_client.create_alert(alerts) (line 37)
CreateAlert ==
    /\ am.pc = "build"
    /\ ActiveEntries(am.alerts, 1) < MaxEntries
    /\ \E r \in ActiveResources, t \in AlertTimes, sev \in Severities :
          \* resource names are interchangeable: 1 is the first one created
          /\ r = 1 \/ \E k \in 1..Len(am.alerts) : am.alerts[k].resource = 1
          /\ am' = [am EXCEPT !.alerts = MergeAlert(@, r, HistoryEntry(t, sev))]
    /\ UNCHANGED <<ec, sel, rc, rp, sr, pa, pr, tz, sg, wf>>

\* lines 131-132: the two scores from the final repository contents
Analyze ==
    /\ am.pc = "build"
    /\ am' = [am EXCEPT
                !.pc = "done",
                !.result = [open_alert_score |-> calculate_open_alert_score(am.alerts)]
                           @@ calculate_alert_duration(am.alerts)]
    /\ UNCHANGED <<ec, sel, rc, rp, sr, pa, pr, tz, sg, wf>>

----------------------------------------------------------------------------
(* Important-time selector: scoring/utils.py *)

\* events_per_day > 30
DenseEvents == 30

\* timedelta(minutes=5)
EventMargin == 300

\* timedelta.days of a difference of two instants
TimedeltaDays(delta) == delta \div SecondsPerDay

Window(type, weekdays, ranges) ==
    [type |-> type, weekdays |-> weekdays, check_datetime_ranges |-> ranges]

DatetimeRange(a, b) == [start_datetime |-> a, end_datetime |-> b]

\* the rules the selector is run on
SelRules ==
    { [has_timezone |-> TRUE, tz |-> 0, start_time |-> 32400, end_time |-> 61200,
       window_include |-> <<>>, window_exclude |-> <<>>],
      [has_timezone |-> TRUE, tz |-> 28800, start_time |-> 32400, end_time |-> 61200,
       window_include |-> << Window("check_datetime_window", {},
                                    << DatetimeRange(30000, 50000) >>) >>,
       window_exclude |-> <<>>],
      [has_timezone |-> FALSE, tz |-> 0, start_time |-> None, end_time |-> None,
       window_include |-> << Window("weekday_window", {"1", "2"}, <<>>) >>,
       window_exclude |-> << Window("check_datetime_window", {},
                                    << DatetimeRange(0 - 5000, 100),
                                       DatetimeRange(200000, 300000) >>) >>],
      [has_timezone |-> TRUE, tz |-> 0 - 18000, start_time |-> 79200, end_time |-> None,
       window_include |-> <<>>, window_exclude |-> <<>>] }

\* <<start_date, end_date>>
SelRanges ==
    { <<0, 86400>>, <<0, 1000>>, <<0, 3600>>, <<72100, 140000>>, <<0, 172800>>, <<86400, 0>> }

SelEventTimes == {100, 28800, 43200, 72000}

SelSteps == {1800, 7200}

\* the input event list: up to MaxSelEvents events followed by a block of
\* events at noon, the block sized around the dense threshold
FillCounts == {0, DenseEvents - 2, DenseEvents + 1}

SelEventLists ==
    { evs \o [k \in 1..fill |-> 43200] :
        evs \in UNION { [1..n -> SelEventTimes] : n \in 0..MaxSelEvents },
        fill \in FillCounts }

\* mutant: the grid stops before end_date
DenseGridMutant(current, end_date, step) ==
    [k \in 1..(IF current < end_date THEN ((end_date - 1 - current) \div step) + 1 ELSE 0) |->
        current + (k - 1) * step]

\* lines 86-91: while current <= end_date: append; current += step
RECURSIVE DenseGrid(_, _, _)
DenseGrid(current, end_date, step) ==
    IF current <= end_date
    THEN <<current>> \o DenseGrid(current + step, end_date, step)
    ELSE <<>>

\* lines 94-95
RuleTz(rule) == IF rule.has_timezone THEN rule.tz ELSE 0

\* lines 116: the check_datetime_window windows of the rule
DatetimeWindows(rule) ==
    LET Is(w) == w.type = "check_datetime_window"
    IN SelectSeq(rule.window_include \o rule.window_exclude, Is)

\* lines 141-154: both boundaries of every range that meets the period
DatetimeWindowTimes(rule, start_date, end_date) ==
    LET windows == DatetimeWindows(rule)
    IN UNION { UNION { IF /\ windows[w].check_datetime_ranges[r].start_datetime <= end_date
                          /\ windows[w].check_datetime_ranges[r].end_datetime >= start_date
                       THEN { windows[w].check_datetime_ranges[r].start_datetime,
                              windows[w].check_datetime_ranges[r].end_datetime }
                       ELSE {} :
                       r \in 1..Len(windows[w].check_datetime_ranges) } :
               w \in 1..Len(windows) }

\* lines 129-138: the rule's start and end time of one local day, in GMT
DayTimes(rule, day) ==
    (IF rule.start_time # None
     THEN {LocalizedDayTime(day, rule.start_time, RuleTz(rule))} ELSE {})
    \cup (IF rule.end_time # None
          THEN {LocalizedDayTime(day, rule.end_time, RuleTz(rule))} ELSE {})

\* lines 119-157: current_date runs over the local midnights up to end_date
RECURSIVE DayLoop(_, _, _, _, _)
DayLoop(rule, current_date, start_date, end_date, important_times) ==
    IF current_date <= end_date
    THEN DayLoop(rule, current_date + SecondsPerDay, start_date, end_date,
                 important_times
                    \cup DayTimes(rule, LocalDate(current_date, RuleTz(rule)))
                    \cup DatetimeWindowTimes(rule, start_date, end_date))
    ELSE important_times

\* mutant: the events are not checked against the period
EventTimesMutant(events, start_date, end_date) ==
    UNION { {events[k] - EventMargin, events[k] + EventMargin} : k \in 1..Len(events) }

\* lines 160-165
EventTimes(events, start_date, end_date) ==
    UNION { IF start_date <= events[k] /\ events[k] <= end_date
            THEN {events[k] - EventMargin, events[k] + EventMargin}
            ELSE {} : k \in 1..Len(events) }

\* line 168: sorted(list(important_times))
RECURSIVE SortedList(_)
SortedList(S) ==
    IF S = {} THEN <<>>
    ELSE LET m == CHOOSE x \in S : \A y \in S : x <= y
         IN <<m>> \o SortedList(S \ {m})

\* mutant: the times outside the period are kept
FilterRangeMutant(times, start_date, end_date) == times

\* line 170
FilterRange(times, start_date, end_date) ==
    LET In(t) == start_date <= t /\ t <= end_date
    IN SelectSeq(times, In)

\* line 85, with events_per_day of line 82
IsDense(start_date, end_date, events) ==
    LET simulation_days == TimedeltaDays(end_date - start_date)
    IN IF simulation_days > 0
       THEN Len(events) > DenseEvents * simulation_days
       ELSE Len(events) > DenseEvents

\* lines 67-172
generate_important_simulation_times(rule, start_date, end_date, events, step) ==
    IF IsDense(start_date, end_date, events)
    THEN DenseGrid(start_date, end_date, step)
    ELSE LET midnight == LocalizedDayTime(LocalDate(start_date, RuleTz(rule)), 0, RuleTz(rule))
             important_times ==
                 DayLoop(rule, midnight, start_date, end_date, {})
                    \cup EventTimes(events, start_date, end_date)
         IN FilterRange(SortedList(important_times), start_date, end_date)

\* the order in which list(important_times) enumerates the set
SetOrders == {"ascending", "descending", "rotated"}

Reverse(s) == [k \in 1..Len(s) |-> s[Len(s) + 1 - k]]

ListOfSet(S, order) ==
    LET asc == SortedList(S)
    IN IF order = "descending" THEN Reverse(asc)
       ELSE IF order = "rotated" /\ asc # <<>> THEN Tail(asc) \o << Head(asc) >>
       ELSE asc

\* mutant: the list is returned as enumerated
SortedOfListMutant(list) == list

\* line 168: sorted(...) of the enumerated list
SortedOfList(list) == SortedBy(list, list)

\* lines 67-172, the set being enumerated in the given order
generate_enumerated(rule, start_date, end_date, events, step, order) ==
    IF IsDense(start_date, end_date, events)
    THEN DenseGrid(start_date, end_date, step)
    ELSE LET midnight == LocalizedDayTime(LocalDate(start_date, RuleTz(rule)), 0, RuleTz(rule))
             important_times ==
                 DayLoop(rule, midnight, start_date, end_date, {})
                    \cup EventTimes(events, start_date, end_date)
         IN FilterRange(SortedOfList(ListOfSet(important_times, order)), start_date, end_date)

SelIdle ==
    [pc |-> "idle", rule |-> <<>>, start_date |-> 0, end_date |-> 0, events |-> <<>>,
     step |-> 0, important_times |-> <<>>, again |-> <<>>]

\* one call of the selector
Select ==
    /\ sel.pc = "call"
    /\ sel' = [sel EXCEPT
                 !.pc = "done",
                 !.important_times =
                     generate_important_simulation_times(sel.rule, sel.start_date,
                                                         sel.end_date, sel.events, sel.step)]
    /\ UNCHANGED <<ec, am, rc, rp, sr, pa, pr, tz, sg, wf>>

\* a second call with the same rule, dates, events and step
SelectAgain ==
    /\ sel.pc = "done"
    /\ \E order \in SetOrders :
          sel' = [sel EXCEPT
                    !.pc = "again",
                    !.again = generate_enumerated(sel.rule, sel.start_date, sel.end_date,
                                                  sel.events, sel.step, order)]
    /\ UNCHANGED <<ec, am, rc, rp, sr, pa, pr, tz, sg, wf>>

----------------------------------------------------------------------------
(* Replay driver: test_rule and simulate, scoring/simulate_rule.py.         *)
(* patch_rule (line 74) only takes DateThreshold windows out of             *)
(* window_exclude, which the selector never reads.                          *)

MaxReplayEvents == 2

\* test_rule(rule, events, start_date, end_date, step=1800)
DefaultStep == 1800

\* the rules a replay is run on: the fields the tracer and the selector read
ReplayRules ==
    { [start_time |-> 32400, end_time |-> 61200, tz |-> 0, country |-> "",
       has_timezone |-> TRUE, window_include |-> <<>>, window_exclude |-> <<>>],
      [start_time |-> None, end_time |-> None, tz |-> 0, country |-> "",
       has_timezone |-> FALSE, window_include |-> <<>>, window_exclude |-> <<>>] }

\* the events of a replay: one inside the period, one after its end
ReplayEvents == { e \in TraceEvents : e.timestamp >= 43200 }

ReplayEventLists == UNION { [1..n -> ReplayEvents] : n \in 0..MaxReplayEvents }

ReplayEndDates == {43200, 64800}

Alert(resource, severity) == [resource |-> resource, severity |-> severity]

\* what monitor.execute() does at an instant: a list of alerts, an empty
\* list, RuleDeferredException, or another exception
MonitorOutcomes ==
    { [kind |-> "alerts", alerts |-> << Alert(1, "critical") >>],
      [kind |-> "alerts", alerts |-> << Alert(1, "ok") >>],
      [kind |-> "alerts", alerts |-> << Alert(2, "critical"), Alert(1, "ok") >>],
      [kind |-> "empty", alerts |-> <<>>],
      [kind |-> "deferred", alerts |-> <<>>],
      [kind |-> "exception", alerts |-> <<>>] }

\* AlertMetrics of the early return (lines 87-95)
ZeroMetrics ==
    [total_alerts |-> 0, total_resources |-> 0, open_alerts |-> 0,
     open_alert_score |-> <<0, 1>>, alert_duration_score |-> <<0, 1>>,
     simulation_times |-> 0, alerts |-> <<>>]

RpInit(rule, events, end_date) ==
    [pc |-> "call", rule |-> rule, events |-> events, end_date |-> end_date,
     important_times |-> <<>>, i |-> 1, evaluated |-> <<>>, outcomes |-> <<>>,
     repository |-> <<>>, alerts |-> <<>>, metrics |-> ZeroMetrics]

RpIdle ==
    [RpInit([start_time |-> None, end_time |-> None, tz |-> 0, country |-> "",
             has_timezone |-> FALSE, window_include |-> <<>>, window_exclude |-> <<>>],
            <<>>, 0)
        EXCEPT !.pc = "idle"]

Timestamps(events) == [k \in 1..Len(events) |-> events[k].timestamp]

\* min(event.timestamp for event in events).replace(hour=0, minute=0, second=0)
MinTimestampMidnight(events) ==
    LET m == CHOOSE k \in 1..Len(events) :
                 \A j \in 1..Len(events) : events[k].timestamp <= events[j].timestamp
    IN (events[m].timestamp \div SecondsPerDay) * SecondsPerDay

\* alert_manager_client.create_alert(alerts) under TimeTraveler(t): every
\* alert becomes a history entry of its resource, updated at t
RECURSIVE CreateAlerts(_, _, _, _)
CreateAlerts(repository, alerts, t, k) ==
    IF k > Len(alerts) THEN repository
    ELSE CreateAlerts(MergeAlert(repository, alerts[k].resource,
                                 HistoryEntry(t, alerts[k].severity)),
                      alerts, t, k + 1)

\* lines 25-44: the repository afterwards and the value returned (<<>> for
\* None)
simulate(simulated_date, outcome, repository) ==
    IF outcome.kind = "alerts"
    THEN [repository |-> CreateAlerts(repository, outcome.alerts, simulated_date, 1),
          alerts |-> [k \in 1..Len(outcome.alerts) |->
                        [resource |-> outcome.alerts[k].resource,
                         severity |-> outcome.alerts[k].severity,
                         create_time |-> simulated_date]]]
    ELSE [repository |-> repository, alerts |-> <<>>]

\* mutant: an exception in the evaluation ends the loop
ReplayStepMutant(r, sim_time, outcome) ==
    LET res == simulate(sim_time, outcome, r.repository)
    IN [r EXCEPT !.i = IF outcome.kind = "exception" THEN Len(r.important_times) + 1
                       ELSE @ + 1,
                 !.evaluated = Append(@, sim_time),
                 !.outcomes = Append(@, outcome.kind),
                 !.repository = res.repository,
                 !.alerts = @ \o res.alerts]

\* lines 115-129: one turn of the loop
ReplayStep(r, sim_time, outcome) ==
    LET res == simulate(sim_time, outcome, r.repository)
    IN [r EXCEPT !.i = @ + 1,
                 !.evaluated = Append(@, sim_time),
                 !.outcomes = Append(@, outcome.kind),
                 !.repository = res.repository,
                 !.alerts = @ \o res.alerts]

\* lines 131-144
BuildAlertMetrics(r) ==
    LET resources == {r.alerts[k].resource : k \in 1..Len(r.alerts)}
        duration == calculate_alert_duration(r.repository)
    IN [total_alerts |-> Cardinality(resources),
        total_resources |-> Cardinality(resources),
        open_alerts |-> duration.open_alerts,
        open_alert_score |-> calculate_open_alert_score(r.repository),
        alert_duration_score |-> duration.alert_duration_score,
        simulation_times |-> Len(r.important_times),
        alerts |-> duration.alert_details]

\* lines 74-110: the early return for no events, or the simulation instants
\* and the run's empty alert repository
ReplayStart ==
    /\ rp.pc = "call"
    /\ rp' = IF rp.events = <<>>
             THEN [rp EXCEPT !.pc = "done", !.metrics = ZeroMetrics]
             ELSE [rp EXCEPT
                     !.pc = "loop",
                     !.important_times =
                         generate_important_simulation_times(rp.rule,
                             MinTimestampMidnight(rp.events), rp.end_date,
                             Timestamps(rp.events), DefaultStep)]
    /\ UNCHANGED <<ec, am, sel, rc, sr, pa, pr, tz, sg, wf>>

\* lines 115-129: the next instant under TimeTraveler(sim_time)
ReplayInstant ==
    /\ rp.pc = "loop" /\ rp.i <= Len(rp.important_times)
    /\ \E outcome \in MonitorOutcomes, caches \in BOOLEAN :
          /\ rp' = ReplayStep(rp, rp.important_times[rp.i], outcome)
          /\ rc' = Evaluate(ReplayReset(rc), rp.important_times[rp.i], caches)
    /\ UNCHANGED <<ec, am, sel, sr, pa, pr, tz, sg, wf>>

\* lines 131-146: the loop is over
ReplayFinish ==
    /\ rp.pc = "loop" /\ rp.i > Len(rp.important_times)
    /\ rp' = [rp EXCEPT !.pc = "done", !.metrics = BuildAlertMetrics(rp)]
    /\ UNCHANGED <<ec, am, sel, rc, sr, pa, pr, tz, sg, wf>>

----------------------------------------------------------------------------
(* Score combiner: scoring_rule, scoring/scoring.py *)

ScoringRules == { r \in ReplayRules : r.start_time # None }

ScoringEventLists == UNION { [1..n -> TraceEvents] : n \in 0..1 }

ScoringEndDates == {43200}

SrInit(rule, events, end_date) ==
    [pc |-> "coverage", rule |-> rule, events |-> events, end_date |-> end_date,
     final_score |-> <<0, 1>>]

SrIdle ==
    [SrInit([start_time |-> None, end_time |-> None, tz |-> 0, country |-> "",
             has_timezone |-> FALSE, window_include |-> <<>>, window_exclude |-> <<>>],
            <<>>, 0)
        EXCEPT !.pc = "idle"]

\* a * n / d
RatScale(a, n, d) == <<a[1] * n, a[2] * d>>

RatAdd(a, b) == <<a[1] * b[2] + b[1] * a[2], a[2] * b[2]>>

\* mutant: a sub-score of 0 makes the final score 0
FinalScoreMutant(alert_metrics, event_coverage_metrics) ==
    IF \E x \in { alert_metrics.alert_duration_score, alert_metrics.open_alert_score,
                  event_coverage_metrics.coverage_score,
                  event_coverage_metrics.holiday_coverage_score } : x[1] = 0
    THEN <<0, 1>>
    ELSE RatScale(RatAdd(RatAdd(RatScale(alert_metrics.alert_duration_score, 3, 4),
                                RatScale(alert_metrics.open_alert_score, 3, 4)),
                         RatAdd(RatScale(event_coverage_metrics.coverage_score, 1, 1),
                                RatScale(event_coverage_metrics.holiday_coverage_score, 1, 2))),
                  1, 3)

\* lines 38-43; 0.75 = 3/4 and 0.5 = 1/2
FinalScore(alert_metrics, event_coverage_metrics) ==
    RatScale(RatAdd(RatAdd(RatScale(alert_metrics.alert_duration_score, 3, 4),
                           RatScale(alert_metrics.open_alert_score, 3, 4)),
                    RatAdd(RatScale(event_coverage_metrics.coverage_score, 1, 1),
                           RatScale(event_coverage_metrics.holiday_coverage_score, 1, 2))),
             1, 3)

\* line 33: event_coverage has returned, test_rule is called with the same
\* rule object and events
ScoringCallTestRule ==
    /\ sr.pc = "coverage" /\ ec.pc = "done"
    /\ sr' = [sr EXCEPT !.pc = "replay"]
    /\ rp' = RpInit(sr.rule, sr.events, sr.end_date)
    /\ UNCHANGED <<ec, am, sel, rc, pa, pr, tz, sg, wf>>

\* lines 38-51: test_rule has returned
ScoringCombine ==
    /\ sr.pc = "replay" /\ rp.pc = "done"
    /\ sr' = [sr EXCEPT !.pc = "done", !.final_score = FinalScore(rp.metrics, ec.metrics)]
    /\ UNCHANGED <<ec, am, sel, rc, rp, pa, pr, tz, sg, wf>>

----------------------------------------------------------------------------
(* Batch runner: _analysis_worker, writer_process, run_parallel_analysis    *)
(* and the analyze command, cli.py.  A summary line is the tuple of its     *)
(* '|'-separated fields.                                                    *)

MaxRules == 2

MaxRuns == 2

RuleIds == {1, 2}

\* the rules given to a run, in the order fetched
RuleLists == UNION { [1..n -> RuleIds] : n \in 0..MaxRules }

\* what happens in the pipeline of one rule: it completes with suggestions,
\* it completes without, a stage (get_rule, analyze_rule, StorageManager)
\* raises an Exception, a storage.backend.store call raises, or the call
\* raises a BaseException that is no Exception
Fates == {"ok", "no_suggestion", "raise", "store_raise", "base_exception"}

\* final_score of the two scoring runs of a rule, as printed
OriginalScore(rule_id) == << "61.0", "62.0" >>[rule_id]

SuggestedScore(rule_id) == << "71.0", "72.0" >>[rule_id]

\* mutant: a failing store call is reported as ERROR
AnalysisWorkerMutant(rule_id, fate) ==
    IF fate \in {"raise", "store_raise"} THEN << rule_id, "ERROR", "ERROR", "0.00" >>
    ELSE << rule_id, OriginalScore(rule_id),
            IF fate = "no_suggestion" THEN "N/A" ELSE SuggestedScore(rule_id), "1.00" >>

\* lines 150-193: the tuple _analysis_worker returns
AnalysisWorker(rule_id, fate) ==
    IF fate = "raise" THEN << rule_id, "ERROR", "ERROR", "0.00" >>
    ELSE << rule_id, OriginalScore(rule_id),
            IF fate = "no_suggestion" THEN "N/A" ELSE SuggestedScore(rule_id), "1.00" >>

\* store_analysis_results (lines 73-146): the data types stored for the rule
Stored(rule_id, fate) ==
    { << rule_id, t >> :
        t \in IF fate = "ok"
              THEN {"statistics", "suggestions", "reliability_metric_before",
                    "reliability_metric_after"}
              ELSE IF fate = "no_suggestion"
              THEN {"statistics", "suggestions", "reliability_metric_before"}
              ELSE {} }

\* a future of the executor, or a call of the single-threaded loop
Future(rule_id) == [rule_id |-> rule_id, state |-> "submitted", fate |-> "", result |-> <<>>]

Ran(future, fate) ==
    [future EXCEPT !.state = IF fate = "base_exception" THEN "raised" ELSE "finished",
                   !.fate = fate,
                   !.result = IF fate = "base_exception" THEN <<>>
                              ELSE AnalysisWorker(future.rule_id, fate)]

Stop == [stop |-> TRUE, result |-> <<>>]

Result(result) == [stop |-> FALSE, result |-> result]

\* line.split('|')[0].strip()
FirstField(line) == line[1]

\* lines 219-229: the ids found in the summary file
ProcessedRuleIds(file) == { FirstField(file[k]) : k \in 1..Len(file) }

\* lines 231-250
RulesToProcess(rules, file) ==
    LET processed_rule_ids == ProcessedRuleIds(file)
        New(id) == id \notin processed_rule_ids
    IN IF processed_rule_ids # {} THEN SelectSeq(rules, New) ELSE rules

PaInit(mode, rules) ==
    [mode |-> mode, pc |-> IF mode = "parallel" THEN "start" ELSE "single",
     rules |-> rules, run |-> 1, i |-> 1,
     file |-> <<>>, processed_rule_ids |-> {}, storage |-> {}, futures |-> <<>>,
     collected |-> {},
     queue |-> <<>>, writer |-> "none"]

PaIdle == [PaInit("parallel", <<>>) EXCEPT !.pc = "idle"]

\* lines 218-279: the cache is read, the writer started and the rules that
\* are left submitted; with nothing to submit "STOP" is put at once
ParallelStart ==
    /\ pa.pc = "start"
    /\ LET rules_to_process == RulesToProcess(pa.rules, pa.file)
       IN pa' = [pa EXCEPT
                   !.processed_rule_ids = ProcessedRuleIds(pa.file),
                   !.futures = [k \in 1..Len(rules_to_process) |-> Future(rules_to_process[k])],
                   !.collected = {},
                   !.writer = "running",
                   !.queue = IF rules_to_process = <<>> THEN << Stop >> ELSE <<>>,
                   !.pc = IF rules_to_process = <<>> THEN "join" ELSE "collect"]
    /\ UNCHANGED <<ec, am, sel, rc, rp, sr, pr, tz, sg, wf>>

\* a worker process runs _analysis_worker for one submitted rule
WorkerRun ==
    /\ pa.pc = "collect"
    /\ \E k \in 1..Len(pa.futures), fate \in Fates :
          /\ pa.futures[k].state = "submitted"
          /\ pa' = [pa EXCEPT !.futures[k] = Ran(@, fate),
                              !.storage = @ \cup Stored(pa.futures[k].rule_id, fate)]
    /\ UNCHANGED <<ec, am, sel, rc, rp, sr, pr, tz, sg, wf>>

\* lines 283-287: the next completed future; future.result() raises what the
\* call raised, which leaves run_parallel_analysis
ParallelCollect ==
    /\ pa.pc = "collect"
    /\ \E k \in 1..Len(pa.futures) :
          /\ k \notin pa.collected
          /\ pa.futures[k].state # "submitted"
          /\ pa' = IF pa.futures[k].state = "raised"
                   THEN [pa EXCEPT !.pc = "raised"]
                   ELSE [pa EXCEPT !.collected = @ \cup {k},
                                   !.queue = Append(@, Result(pa.futures[k].result))]
    /\ UNCHANGED <<ec, am, sel, rc, rp, sr, pr, tz, sg, wf>>

\* line 289: every future was collected
ParallelStop ==
    /\ pa.pc = "collect"
    /\ pa.collected = 1..Len(pa.futures)
    /\ pa' = [pa EXCEPT !.queue = Append(@, Stop), !.pc = "join"]
    /\ UNCHANGED <<ec, am, sel, rc, rp, sr, pr, tz, sg, wf>>

\* writer_process (lines 195-204): one turn of its loop
WriterStep ==
    /\ pa.writer = "running"
    /\ pa.queue # <<>>
    /\ pa' = IF Head(pa.queue).stop
             THEN [pa EXCEPT !.queue = Tail(@), !.writer = "stopped"]
             ELSE [pa EXCEPT !.queue = Tail(@), !.file = Append(@, Head(pa.queue).result)]
    /\ UNCHANGED <<ec, am, sel, rc, rp, sr, pr, tz, sg, wf>>

\* writer.join() (lines 279-280, 290)
ParallelJoin ==
    /\ pa.pc = "join"
    /\ pa.writer = "stopped"
    /\ pa' = [pa EXCEPT !.pc = "returned"]
    /\ UNCHANGED <<ec, am, sel, rc, rp, sr, pr, tz, sg, wf>>

\* the command is run again on the same output file; the processes of a run
\* that raised are gone, with what the writer had not yet written
NextRun ==
    /\ pa.mode = "parallel"
    /\ pa.pc \in {"returned", "raised"}
    /\ pa.run < MaxRuns
    /\ \E rules \in RuleLists :
          pa' = [pa EXCEPT !.pc = "start", !.rules = rules, !.run = @ + 1,
                           !.futures = <<>>, !.collected = {}, !.queue = <<>>,
                           !.writer = "none"]
    /\ UNCHANGED <<ec, am, sel, rc, rp, sr, pr, tz, sg, wf>>

\* lines 411-424: the single-threaded loop calls _analysis_worker and drops
\* what it returns
SingleAnalyze ==
    /\ pa.pc = "single" /\ pa.i <= Len(pa.rules)
    /\ \E fate \in Fates \ {"base_exception"} :
          pa' = [pa EXCEPT !.i = @ + 1,
                           !.futures = Append(@, Ran(Future(pa.rules[pa.i]), fate)),
                           !.storage = @ \cup Stored(pa.rules[pa.i], fate)]
    /\ UNCHANGED <<ec, am, sel, rc, rp, sr, pr, tz, sg, wf>>

SingleDone ==
    /\ pa.pc = "single" /\ pa.i > Len(pa.rules)
    /\ pa' = [pa EXCEPT !.pc = "returned"]
    /\ UNCHANGED <<ec, am, sel, rc, rp, sr, pr, tz, sg, wf>>

----------------------------------------------------------------------------
(* patch_rule, scoring/utils.py: the rule is prepared for the replay.  A    *)
(* window is an object of its own: two windows of one class are different   *)
(* elements of the list.                                                    *)

MaxWindows == 4

WindowClasses == {"DateThresholdWindow", "WeekdayWindow", "TimeWindow"}

\* "DateThreshold" in r.__class__.__name__
IsDateThreshold(r) == r.class_name = "DateThresholdWindow"

WindowLists ==
    UNION { { [k \in 1..n |-> [class_name |-> f[k], id |-> k]] : f \in [1..n -> WindowClasses] } :
            n \in 0..MaxWindows }

\* list.remove(r): the first element equal to r is taken out
RemoveFirst(list, r) ==
    LET at == CHOOSE k \in 1..Len(list) :
                  list[k] = r /\ \A j \in 1..(k - 1) : list[j] # r
    IN [k \in 1..(Len(list) - 1) |-> IF k < at THEN list[k] ELSE list[k + 1]]

\* lines 183-185: one turn of the for loop; the list iterator keeps an index
\* into the list that the body shortens
PatchVisit(p) ==
    LET r == p.window_exclude[p.i]
    IN [p EXCEPT !.i = @ + 1,
                 !.window_exclude = IF IsDateThreshold(r) THEN RemoveFirst(@, r) ELSE @]

\* use_file_event is None for a rule without the attribute
PrInit(use_file_event, windows) ==
    [pc |-> "call", use_file_event |-> use_file_event, original |-> windows,
     window_exclude |-> windows, i |-> 1]

PrIdle == [PrInit(None, <<>>) EXCEPT !.pc = "idle"]

\* lines 178-179
PatchStart ==
    /\ pr.pc = "call"
    /\ pr' = [pr EXCEPT !.pc = "loop",
                        !.use_file_event = IF @ # None THEN 1 ELSE @]
    /\ UNCHANGED <<ec, am, sel, rc, rp, sr, pa, tz, sg, wf>>

\* lines 182-185
PatchStep ==
    /\ pr.pc = "loop" /\ pr.i <= Len(pr.window_exclude)
    /\ pr' = PatchVisit(pr)
    /\ UNCHANGED <<ec, am, sel, rc, rp, sr, pa, tz, sg, wf>>

\* line 187
PatchReturn ==
    /\ pr.pc = "loop" /\ pr.i > Len(pr.window_exclude)
    /\ pr' = [pr EXCEPT !.pc = "returned"]
    /\ UNCHANGED <<ec, am, sel, rc, rp, sr, pa, tz, sg, wf>>

----------------------------------------------------------------------------
(* TimezoneSuggestionAlgorithm.suggest, suggestions/timezone/algorithm.py.  *)
(* What each strategy answers is an input; the strategies are listed in the *)
(* order of their class names, and method_used tells which one answered.    *)

MaxStrategies == 3

\* None in a field that holds a string
NoneStr == "None"

DelayCodes == {"T", "B", "C", "b", "c"}

\* a strategy returned None
NoResult == [timezone |-> NoneStr, delay_code |-> NoneStr, method_used |-> 0, is_none |-> TRUE]

TimezoneResult(timezone, delay_code, method_used) ==
    [timezone |-> timezone, delay_code |-> delay_code, method_used |-> method_used,
     is_none |-> FALSE]

Timezones == {"Asia/Tokyo", "Europe/London"}

\* _add_delay_settings (strategies/base.py): the delay code the statistics
\* give for each timezone, None where no lag distribution can be computed
\* (no raw data, or no mtime column of that timezone)
LagCodes == [Timezones -> DelayCodes \cup {NoneStr}]

\* suggest_timezone of the strategies, in class-name order: None, a result
\* without timezone, or a timezone
TimezoneLists == UNION { [1..n -> Timezones \cup {NoneStr, "no result"}] : n \in 0..MaxStrategies }

\* TimezoneStrategy.suggest: suggest_timezone, then _add_delay_settings
StrategySuggest(timezone, lag_codes, k) ==
    IF timezone = "no result" THEN NoResult
    ELSE IF timezone = NoneStr THEN TimezoneResult(NoneStr, NoneStr, k)
    ELSE TimezoneResult(timezone, lag_codes[timezone], k)

\* result and result.timezone
HasTimezone(result) == ~result.is_none /\ result.timezone # NoneStr

\* priority_order.get(code, float('inf')), in units where inf is 6
PriorityOrder(code) ==
    CASE code = "T" -> 1 [] code = "B" -> 2 [] code = "C" -> 3
      [] code = "b" -> 4 [] code = "c" -> 5 [] OTHER -> 6

\* lines 51-57: the result of one strategy against the combined result
Combine(combined_result, result) ==
    IF HasTimezone(result)
    THEN IF \/ combined_result.is_none
            \/ /\ result.delay_code # NoneStr
               /\ combined_result.delay_code # NoneStr
               /\ PriorityOrder(result.delay_code) < PriorityOrder(combined_result.delay_code)
         THEN result
         ELSE combined_result
    ELSE combined_result

\* timezone is the one given by the user, or None; user_result and results
\* are what UserDefinedStrategy and the loaded strategies answer
TzInit(has_metrics, timezone, timezones, lag_codes) ==
    [pc |-> "call", has_metrics |-> has_metrics,
     user_result |-> StrategySuggest(timezone, lag_codes, 0),
     results |-> [k \in 1..Len(timezones) |-> StrategySuggest(timezones[k], lag_codes, k)],
     i |-> 1, combined_result |-> NoResult, returned |-> NoResult]

TzIdle == [TzInit(TRUE, NoneStr, <<>>, [t \in Timezones |-> NoneStr]) EXCEPT !.pc = "idle"]

\* requires_metrics (base.py 13-43) and lines 38-41: without the metrics the
\* answer is None; the user-defined result with a timezone is returned
TzCall ==
    /\ tz.pc = "call"
    /\ tz' = IF ~tz.has_metrics
             THEN [tz EXCEPT !.pc = "returned", !.returned = NoResult]
             ELSE IF HasTimezone(tz.user_result)
             THEN [tz EXCEPT !.pc = "returned", !.returned = tz.user_result]
             ELSE [tz EXCEPT !.pc = "loop"]
    /\ UNCHANGED <<ec, am, sel, rc, rp, sr, pa, pr, sg, wf>>

\* lines 49-57: the next strategy
TzStrategy ==
    /\ tz.pc = "loop" /\ tz.i <= Len(tz.results)
    /\ tz' = [tz EXCEPT !.i = @ + 1,
                        !.combined_result = Combine(@, tz.results[tz.i])]
    /\ UNCHANGED <<ec, am, sel, rc, rp, sr, pa, pr, sg, wf>>

\* line 59
TzReturn ==
    /\ tz.pc = "loop" /\ tz.i > Len(tz.results)
    /\ tz' = [tz EXCEPT !.pc = "returned", !.returned = tz.combined_result]
    /\ UNCHANGED <<ec, am, sel, rc, rp, sr, pa, pr, sg, wf>>

----------------------------------------------------------------------------
(* FileSuggestionGenerator.generate and the algorithms it calls,            *)
(* suggestions/.  Each metric of the statistics is an attribute that is     *)
(* absent, an empty dictionary, or filled.                                  *)

MaxMissing == 2

Metrics ==
    {"count_percentiles", "age_distribution", "ownership_distribution", "size_percentiles",
     "count_weekday_distribution", "count_30_min_distribution", "holiday_metrics",
     "count_date_label_lag_distribution", "count_mtime_weekday_distribution",
     "count_non_updated_events_30_min_distribution"}

\* the statistics in which at most MaxMissing metrics are absent or empty
StatisticsResults ==
    { st \in [Metrics -> {"absent", "empty", "filled"}] :
        Cardinality({m \in Metrics : st[m] # "filled"}) <= MaxMissing }

\* the algorithm map of generate (lines 50-55), in insertion order: the two
\* fixed entries, then the algorithms loaded from the directory
AlgorithmMap ==
    << "timezone", "check_windows", "file_age", "file_count", "file_ownership", "file_size" >>

Attributes == {AlgorithmMap[k] : k \in 1..Len(AlgorithmMap)} \cup {NoneStr, "file_pattern"}

\* requires_metrics (base.py 13-43): a required attribute is missing
MissingMetrics(statistics, required_metrics) ==
    \E m \in required_metrics : statistics[m] = "absent"

\* FileCountAlgorithm.suggest (file_count.py 10-26): list(percentiles.keys())[0]
\* raises IndexError on an empty dictionary
FileCountSuggest(statistics) ==
    IF MissingMetrics(statistics, {"count_percentiles"}) THEN "none"
    ELSE IF statistics["count_percentiles"] = "empty" THEN "raise"
    ELSE "result"

\* FileAgeAlgorithm.suggest and FileOwnershipAlgorithm.suggest: if not distribution
DistributionSuggest(statistics, metric) ==
    IF MissingMetrics(statistics, {metric}) THEN "none"
    ELSE IF statistics[metric] = "empty" THEN "none"
    ELSE "result"

\* FileSizeAlgorithm.suggest: percentiles.get(.., 0), a result from an empty
\* dictionary as well
FileSizeSuggest(statistics) ==
    IF MissingMetrics(statistics, {"size_percentiles"}) THEN "none" ELSE "result"

\* TimezoneSuggestionAlgorithm.suggest: answers tells whether a timezone is
\* found in the statistics
TimezoneSuggest(statistics, answers) ==
    IF MissingMetrics(statistics, {"count_weekday_distribution",
                                   "count_date_label_lag_distribution",
                                   "count_30_min_distribution"})
    THEN "none"
    ELSE IF answers THEN "result" ELSE "none"

\* _generate_check_windows (generator 75-81) and CheckWindowsSuggestionAlgorithm
\* .suggest (17-64): the decorator asks for three metrics, the body reads two
\* others at lines 22 (suggest_weekday, line 68) and 25
CheckWindowsSuggest(statistics, answers) ==
    IF TimezoneSuggest(statistics, answers) = "none" THEN "none"
    ELSE IF MissingMetrics(statistics, {"count_weekday_distribution",
                                        "count_30_min_distribution", "holiday_metrics"})
    THEN "none"
    ELSE IF MissingMetrics(statistics, {"count_mtime_weekday_distribution",
                                        "count_non_updated_events_30_min_distribution"})
    THEN "raise"
    ELSE "result"

\* algorithm(statistics) or algorithm.suggest(statistics), lines 61 and 69
AlgorithmSuggest(name, statistics, answers) ==
    CASE name = "timezone" -> TimezoneSuggest(statistics, answers)
      [] name = "check_windows" -> CheckWindowsSuggest(statistics, answers)
      [] name = "file_age" -> DistributionSuggest(statistics, "age_distribution")
      [] name = "file_count" -> FileCountSuggest(statistics)
      [] name = "file_ownership" -> DistributionSuggest(statistics, "ownership_distribution")
      [] name = "file_size" -> FileSizeSuggest(statistics)

\* suggestions holds the fields of FileSuggestions that were set
SgInit(statistics, answers, attribute) ==
    [pc |-> "call", statistics |-> statistics, answers |-> answers, attribute |-> attribute,
     i |-> 1, suggestions |-> {}, returned |-> "", called |-> {}]

SgIdle == [SgInit([m \in Metrics |-> "filled"], FALSE, NoneStr) EXCEPT !.pc = "idle"]

\* lines 57-65: one attribute is asked for
GenerateOne ==
    /\ sg.pc = "call" /\ sg.attribute # NoneStr
    /\ sg' = IF \A k \in 1..Len(AlgorithmMap) : AlgorithmMap[k] # sg.attribute
             THEN [sg EXCEPT !.pc = "returned", !.returned = "None"]
             ELSE LET result == AlgorithmSuggest(sg.attribute, sg.statistics, sg.answers)
                  IN [sg EXCEPT
                        !.called = @ \cup {sg.attribute},
                        !.pc = IF result = "raise" THEN "raised" ELSE "returned",
                        !.suggestions = IF result = "result" THEN {sg.attribute} ELSE @,
                        !.returned = IF result = "result" THEN "suggestions"
                                     ELSE IF result = "none" THEN "None" ELSE @]
    /\ UNCHANGED <<ec, am, sel, rc, rp, sr, pa, pr, tz, wf>>

\* lines 67-68: all attributes
GenerateAll ==
    /\ sg.pc = "call" /\ sg.attribute = NoneStr
    /\ sg' = [sg EXCEPT !.pc = "loop"]
    /\ UNCHANGED <<ec, am, sel, rc, rp, sr, pa, pr, tz, wf>>

\* lines 68-71: the next algorithm of the map
GenerateNext ==
    /\ sg.pc = "loop" /\ sg.i <= Len(AlgorithmMap)
    /\ LET attr == AlgorithmMap[sg.i]
           result == AlgorithmSuggest(attr, sg.statistics, sg.answers)
       IN sg' = [sg EXCEPT
                   !.called = @ \cup {attr},
                   !.i = @ + 1,
                   !.pc = IF result = "raise" THEN "raised" ELSE @,
                   !.suggestions = IF result = "result" THEN @ \cup {attr} ELSE @]
    /\ UNCHANGED <<ec, am, sel, rc, rp, sr, pa, pr, tz, wf>>

\* line 73
GenerateReturn ==
    /\ sg.pc = "loop" /\ sg.i > Len(AlgorithmMap)
    /\ sg' = [sg EXCEPT !.pc = "returned", !.returned = "suggestions"]
    /\ UNCHANGED <<ec, am, sel, rc, rp, sr, pa, pr, tz, wf>>

----------------------------------------------------------------------------
(* RuleAnalysisWorkflow.analyze_rule, workflow.py, with FileSuggestions      *)
(* .to_rule, suggestions/models.py.  Rules are objects: heap maps a          *)
(* reference to the fields of the rule it designates, so that a change made  *)
(* through one reference is seen through every reference to the same object. *)

StepOrder ==
    [collector |-> 1, scorev1 |-> 2, builder |-> 3, statistic |-> 4, suggestion |-> 5,
     scorev2 |-> 6]

Steps == DOMAIN StepOrder

\* final_score of a scoring run, in whole points
FinalScores == {0, 50, 100}

WfEventLists == { <<>>, << 43200 >> }

WfEndDates == {43200, 86400}

CheckWindow(class_name, id) == [class_name |-> class_name, id |-> id]

WfRules ==
    [timezone : {"GMT", "Asia/Tokyo"},
     window_include : { <<>> },
     window_exclude : { <<>>, << CheckWindow("WeekdayWindow", 1) >>,
                        << CheckWindow("DateThresholdWindow", 1), CheckWindow("WeekdayWindow", 2) >> },
     constraints : { <<>>, << "FileSizeThresholdConstraint" >> },
     pattern : {"", "file_${B1_YYYYMMDD}.csv"},
     delay_code : {NoneStr},
     use_file_event : {0}]

\* FileSuggestions as generate returns it: None, or the fields that are set
NoSuggestions == [is_none |-> TRUE, timezone |-> NoneStr, delay_code |-> NoneStr,
                  check_windows |-> FALSE, file_size |-> FALSE]

FileSuggestions ==
    {NoSuggestions}
    \cup [is_none : {FALSE}, timezone : {NoneStr, "Europe/London"}, delay_code : {NoneStr, "B"},
          check_windows : BOOLEAN, file_size : BOOLEAN]

\* patch_rule (utils.py 175-187), the loop run to its end
RECURSIVE PatchLoop(_)
PatchLoop(p) == IF p.i > Len(p.window_exclude) THEN p ELSE PatchLoop(PatchVisit(p))

PatchRule(rule) ==
    LET p == PatchLoop([PrInit(rule.use_file_event, rule.window_exclude) EXCEPT
                           !.use_file_event = 1])
    IN [rule EXCEPT !.use_file_event = p.use_file_event, !.window_exclude = p.window_exclude]

\* scoring_rule patches the rule it is given in event_coverage (line 32) and
\* again in test_rule (simulate_rule.py 74)
ScoringPatches(heap, ref) == [heap EXCEPT ![ref] = PatchRule(PatchRule(@))]

\* re.sub with the pattern of models.py line 69 raises re.error: the
\* expression has an unterminated group
RaisesInApply(suggestions, rule) ==
    /\ suggestions.timezone # NoneStr
    /\ suggestions.delay_code # NoneStr
    /\ rule.pattern # ""

\* apply_to_rule (models.py 41-107, check_windows/models.py 39-): the fields
\* of the rule after the suggestions are applied
ApplyToRule(suggestions, rule) ==
    LET cleared == [rule EXCEPT !.constraints = <<>>]
        windowed == IF suggestions.check_windows
                    THEN [cleared EXCEPT !.timezone = "Europe/London",
                                         !.window_include = << CheckWindow("TimeWindow", 1) >>,
                                         !.window_exclude = <<>>]
                    ELSE cleared
        zoned == IF suggestions.timezone # NoneStr
                 THEN [windowed EXCEPT
                         !.timezone = suggestions.timezone,
                         !.delay_code = IF suggestions.delay_code # NoneStr
                                        THEN suggestions.delay_code ELSE @]
                 ELSE windowed
    IN IF suggestions.file_size
       THEN [zoned EXCEPT !.constraints = Append(@, "FileSizeThresholdConstraint")]
       ELSE zoned

\* mutant: no copy is made, the suggestions are applied to the rule given
DeepcopyMutant(heap, ref) == [heap |-> heap, ref |-> ref]

\* deepcopy(original_rule): a new object with the same fields
Deepcopy(heap, ref) ==
    LET new_rule == Len(heap) + 1
    IN [heap |-> Append(heap, heap[ref]), ref |-> new_rule]

\* to_rule (models.py 109-120)
ToRule(suggestions, heap, original_rule) ==
    LET copy == Deepcopy(heap, original_rule)
    IN [heap |-> [copy.heap EXCEPT ![copy.ref] = ApplyToRule(suggestions, @)],
        ref |-> copy.ref]

\* rule is the reference given to analyze_rule; analysis_results holds the
\* keys set so far, scored the arguments of the scoring_rule calls
WfInit(rule, events, end_date, step) ==
    [pc |-> "collector", step |-> step, heap |-> << rule >>, rule |-> 1,
     collected |-> events, end_date |-> end_date,
     events |-> <<>>, suggestions |-> NoSuggestions, suggested_rule |-> 0,
     original_score |-> None, suggested_score |-> None, score_improvement |-> None,
     analysis_results |-> {}, scored |-> <<>>]

WfIdle == [WfInit(CHOOSE r \in WfRules : TRUE, <<>>, 43200, "collector") EXCEPT !.pc = "idle"]

\* the block of the next step, or the return when the target step is passed
Advance(w, next) ==
    IF StepOrder[w.step] >= StepOrder[next] THEN [w EXCEPT !.pc = next]
    ELSE [w EXCEPT !.pc = "returned"]

\* lines 108-111
WfCollect ==
    /\ wf.pc = "collector"
    /\ wf' = Advance([wf EXCEPT !.events = wf.collected,
                                !.analysis_results = @ \cup {"events"}], "scorev1")
    /\ UNCHANGED <<ec, am, sel, rc, rp, sr, pa, pr, tz, sg>>

\* lines 113-117
WfScoreOriginal ==
    /\ wf.pc = "scorev1"
    /\ \E final_score \in FinalScores :
          wf' = Advance([wf EXCEPT
                           !.heap = ScoringPatches(@, wf.rule),
                           !.scored = Append(@, << wf.rule, wf.events, 0, wf.end_date >>),
                           !.original_score = final_score,
                           !.analysis_results = @ \cup {"original_score"}], "builder")
    /\ UNCHANGED <<ec, am, sel, rc, rp, sr, pa, pr, tz, sg>>

\* lines 119-128: the data frame and the statistics
WfStatistics ==
    /\ wf.pc \in {"builder", "statistic"}
    /\ wf' = IF wf.pc = "builder"
             THEN Advance([wf EXCEPT !.analysis_results = @ \cup {"df"}], "statistic")
             ELSE Advance([wf EXCEPT !.analysis_results = @ \cup {"statistics"}], "suggestion")
    /\ UNCHANGED <<ec, am, sel, rc, rp, sr, pa, pr, tz, sg>>

\* lines 130-133
WfSuggest ==
    /\ wf.pc = "suggestion"
    /\ \E suggestions \in FileSuggestions :
          wf' = Advance([wf EXCEPT !.suggestions = suggestions,
                                   !.analysis_results = @ \cup {"suggestions"}], "scorev2")
    /\ UNCHANGED <<ec, am, sel, rc, rp, sr, pa, pr, tz, sg>>

\* lines 135-142
WfScoreSuggested ==
    /\ wf.pc = "scorev2"
    /\ \E final_score \in FinalScores :
          wf' = IF wf.suggestions.is_none
                THEN [wf EXCEPT !.pc = "returned"]
                ELSE LET made == ToRule(wf.suggestions, wf.heap, wf.rule)
                     IN IF RaisesInApply(wf.suggestions, made.heap[made.ref])
                        THEN [wf EXCEPT !.pc = "raised", !.heap = Deepcopy(wf.heap, wf.rule).heap]
                        ELSE [wf EXCEPT
                                !.pc = "returned",
                                !.suggested_rule = made.ref,
                                !.heap = ScoringPatches(made.heap, made.ref),
                                !.scored = Append(@, << made.ref, wf.events, 0, wf.end_date >>),
                                !.suggested_score = final_score,
                                !.score_improvement = final_score - wf.original_score,
                                !.analysis_results =
                                    @ \cup {"suggested_score", "score_improvement"}]
    /\ UNCHANGED <<ec, am, sel, rc, rp, sr, pa, pr, tz, sg>>

----------------------------------------------------------------------------
(* Specifications: one per component, the other components idle, and one   *)
(* for a whole scoring run                                                  *)

InitTracer ==
    /\ \E rule \in TraceRules, events \in EventLists : ec = EcInit(rule, events)
    /\ am = AmIdle
    /\ sel = SelIdle
    /\ rc = RcInit
    /\ rp = RpIdle
    /\ sr = SrIdle
    /\ pa = PaIdle
    /\ pr = PrIdle
    /\ tz = TzIdle
    /\ sg = SgIdle
    /\ wf = WfIdle

NextTracer == TraceCovered \/ TraceDeferred \/ TraceUnexpected \/ TraceFinish

SpecTracer == InitTracer /\ [][NextTracer]_vars

InitAnalyzer ==
    /\ \E seed \in Seeds :
          am = [pc |-> "build", alerts |-> SeedAlerts(seed[1], seed[2]), result |-> <<>>]
    /\ ec = EcIdle
    /\ sel = SelIdle
    /\ rc = RcInit
    /\ rp = RpIdle
    /\ sr = SrIdle
    /\ pa = PaIdle
    /\ pr = PrIdle
    /\ tz = TzIdle
    /\ sg = SgIdle
    /\ wf = WfIdle

NextAnalyzer == CreateAlert \/ Analyze

SpecAnalyzer == InitAnalyzer /\ [][NextAnalyzer]_vars

InitSelector ==
    /\ \E rule \in SelRules, range \in SelRanges, events \in SelEventLists, step \in SelSteps :
          sel = [pc |-> "call", rule |-> rule, start_date |-> range[1],
                 end_date |-> range[2], events |-> events, step |-> step,
                 important_times |-> <<>>, again |-> <<>>]
    /\ ec = EcIdle
    /\ am = AmIdle
    /\ rc = RcInit
    /\ rp = RpIdle
    /\ sr = SrIdle
    /\ pa = PaIdle
    /\ pr = PrIdle
    /\ tz = TzIdle
    /\ sg = SgIdle
    /\ wf = WfIdle

NextSelector == Select \/ SelectAgain

SpecSelector == InitSelector /\ [][NextSelector]_vars

InitReplay ==
    /\ \E rule \in ReplayRules, events \in ReplayEventLists, end_date \in ReplayEndDates :
          rp = RpInit(rule, events, end_date)
    /\ ec = EcIdle
    /\ am = AmIdle
    /\ sel = SelIdle
    /\ rc = RcInit
    /\ sr = SrIdle
    /\ pa = PaIdle
    /\ pr = PrIdle
    /\ tz = TzIdle
    /\ sg = SgIdle
    /\ wf = WfIdle

NextReplay == ReplayStart \/ ReplayInstant \/ ReplayFinish

SpecReplay == InitReplay /\ [][NextReplay]_vars

InitScoring ==
    /\ \E rule \in ScoringRules, events \in ScoringEventLists, end_date \in ScoringEndDates :
          /\ sr = SrInit(rule, events, end_date)
          /\ ec = EcInit(rule, events)
    /\ am = AmIdle
    /\ sel = SelIdle
    /\ rc = RcInit
    /\ rp = RpIdle
    /\ pa = PaIdle
    /\ pr = PrIdle
    /\ tz = TzIdle
    /\ sg = SgIdle
    /\ wf = WfIdle

NextScoring ==
    \/ TraceCovered \/ TraceDeferred \/ TraceUnexpected \/ TraceFinish
    \/ ScoringCallTestRule
    \/ ReplayStart \/ ReplayInstant \/ ReplayFinish
    \/ ScoringCombine

SpecScoring == InitScoring /\ [][NextScoring]_vars

InitBatch ==
    /\ \E mode \in {"parallel", "single"}, rules \in RuleLists : pa = PaInit(mode, rules)
    /\ ec = EcIdle
    /\ am = AmIdle
    /\ sel = SelIdle
    /\ rc = RcInit
    /\ rp = RpIdle
    /\ sr = SrIdle
    /\ pr = PrIdle
    /\ tz = TzIdle
    /\ sg = SgIdle
    /\ wf = WfIdle

NextBatch ==
    \/ ParallelStart \/ WorkerRun \/ ParallelCollect \/ ParallelStop
    \/ WriterStep \/ ParallelJoin \/ NextRun
    \/ SingleAnalyze \/ SingleDone

SpecBatch == InitBatch /\ [][NextBatch]_vars

InitPatch ==
    /\ \E use_file_event \in {None, 0}, windows \in WindowLists :
          pr = PrInit(use_file_event, windows)
    /\ ec = EcIdle
    /\ am = AmIdle
    /\ sel = SelIdle
    /\ rc = RcInit
    /\ rp = RpIdle
    /\ sr = SrIdle
    /\ pa = PaIdle
    /\ tz = TzIdle
    /\ sg = SgIdle
    /\ wf = WfIdle

NextPatch == PatchStart \/ PatchStep \/ PatchReturn

SpecPatch == InitPatch /\ [][NextPatch]_vars

InitTimezone ==
    /\ \E has_metrics \in BOOLEAN, timezone \in Timezones \cup {NoneStr},
          timezones \in TimezoneLists, lag_codes \in LagCodes :
          tz = TzInit(has_metrics, timezone, timezones, lag_codes)
    /\ ec = EcIdle
    /\ am = AmIdle
    /\ sel = SelIdle
    /\ rc = RcInit
    /\ rp = RpIdle
    /\ sr = SrIdle
    /\ pa = PaIdle
    /\ pr = PrIdle
    /\ sg = SgIdle
    /\ wf = WfIdle

NextTimezone == TzCall \/ TzStrategy \/ TzReturn

SpecTimezone == InitTimezone /\ [][NextTimezone]_vars

InitGenerate ==
    /\ \E statistics \in StatisticsResults, answers \in BOOLEAN, attribute \in Attributes :
          sg = SgInit(statistics, answers, attribute)
    /\ ec = EcIdle
    /\ am = AmIdle
    /\ sel = SelIdle
    /\ rc = RcInit
    /\ rp = RpIdle
    /\ sr = SrIdle
    /\ pa = PaIdle
    /\ pr = PrIdle
    /\ tz = TzIdle
    /\ wf = WfIdle

NextGenerate == GenerateOne \/ GenerateAll \/ GenerateNext \/ GenerateReturn

SpecGenerate == InitGenerate /\ [][NextGenerate]_vars

InitWorkflow ==
    /\ \E rule \in WfRules, events \in WfEventLists, end_date \in WfEndDates, step \in Steps :
          wf = WfInit(rule, events, end_date, step)
    /\ ec = EcIdle
    /\ am = AmIdle
    /\ sel = SelIdle
    /\ rc = RcInit
    /\ rp = RpIdle
    /\ sr = SrIdle
    /\ pa = PaIdle
    /\ pr = PrIdle
    /\ tz = TzIdle
    /\ sg = SgIdle

NextWorkflow == WfCollect \/ WfScoreOriginal \/ WfStatistics \/ WfSuggest \/ WfScoreSuggested

SpecWorkflow == InitWorkflow /\ [][NextWorkflow]_vars

----------------------------------------------------------------------------
(* Claims about the event coverage tracer *)

\* C1: when event_coverage returns, total_events is the number of input
\* events, 0 <= covered_events <= total_events, and coverage_score is
\* covered_events / total_events * 100, or 0 when there is no event.
C1_CoverageBound ==
    ec.pc = "done" =>
        /\ ec.metrics.total_events = Len(ec.events)
        /\ 0 <= ec.metrics.covered_events
        /\ ec.metrics.covered_events <= ec.metrics.total_events
        /\ ec.metrics.total_events = 0 => ec.metrics.coverage_score = <<0, 1>>
        /\ ec.metrics.total_events > 0 =>
              /\ ec.metrics.coverage_score[2] > 0
              /\ ec.metrics.coverage_score[1] * ec.metrics.total_events
                    = 100 * ec.metrics.covered_events * ec.metrics.coverage_score[2]

\* a returned run of three events, some covered by a passing check, some by
\* grace, some not covered
C1_Witness ==
    /\ ec.pc = "done"
    /\ ec.metrics.total_events = 3
    /\ ec.metrics.covered_events = 2
    /\ Len(ec.metrics.events) = 2
    /\ \E k \in 1..2 : ec.metrics.events[k].is_covered
    /\ \E k \in 1..2 : ~ec.metrics.events[k].is_covered

\* the details recorded by the TimeWindow branch of the handler
IsTimeWindowDetail(d) ==
    d.reason.text \in {"covered within 2 hours of start/end time", ReasonTimeWindow}

Distance(a, b) == IF a >= b THEN a - b ELSE b - a

\* the event time is within 2 hours of the rule's start or end of window on
\* the event's local day
WithinTwoHours(t, rule) ==
    LET day == LocalDate(t, rule.tz)
    IN \/ Distance(t, LocalizedDayTime(day, rule.start_time, rule.tz)) <= GraceSeconds
       \/ Distance(t, LocalizedDayTime(day, rule.end_time, rule.tz)) <= GraceSeconds

\* C9: an event deferred with "fall within TimeWindow" is counted as covered
\* if and only if its time is within 2 hours of the rule's start or end of
\* window; every other such event is not covered, with the original reason.
C9_GraceWithinTwoHours ==
    \A k \in 1..Len(ec.event_details) :
        LET d == ec.event_details[k]
        IN IsTimeWindowDetail(d) =>
              /\ d.is_covered <=> WithinTwoHours(d.timestamp, ec.rule)
              /\ ~d.is_covered => d.reason = RawReason(ReasonTimeWindow)

\* C10: an event deferred with "fall within TimeWindow" exactly 2 hours
\* before the window start is covered; 2 hours and 1 second before, it is
\* not covered.
C10_GraceBoundary ==
    \A k \in 1..Len(ec.event_details) :
        LET d == ec.event_details[k]
            start_time_dt == LocalizedDayTime(LocalDate(d.timestamp, ec.rule.tz),
                                              ec.rule.start_time, ec.rule.tz)
        IN IsTimeWindowDetail(d) =>
              /\ d.timestamp = start_time_dt - GraceSeconds => d.is_covered
              /\ d.timestamp = start_time_dt - GraceSeconds - 1 => ~d.is_covered

\* the details of the returned metrics for the event time t
DetailsAt(t) ==
    {k \in 1..Len(ec.metrics.events) : ec.metrics.events[k].timestamp = t}

\* the run of the scenario: the rule with the daily window 09:00-17:00 GMT,
\* events at 08:00, 12:00 and 20:00 of day 0, the check passing at 12:00 (no
\* detail) and deferred with the TimeWindow reason at 08:00 and 20:00
IsScenarioRun ==
    /\ ec.pc = "done"
    /\ ec.rule = [start_time |-> 32400, end_time |-> 61200, tz |-> 0, country |-> ""]
    /\ Len(ec.events) = 3
    /\ {ec.events[k].timestamp : k \in 1..3} = {28800, 43200, 72000}
    /\ Len(ec.metrics.events) = 2
    /\ DetailsAt(43200) = {}
    /\ \A k \in 1..2 : IsTimeWindowDetail(ec.metrics.events[k])

\* C11: in the scenario run the 08:00 and the 20:00 events are marked not
\* covered and only the 12:00 event is covered: covered_events = 1 of
\* total_events = 3.
C11_EndToEnd ==
    IsScenarioRun =>
        /\ ec.metrics.total_events = 3
        /\ ec.metrics.covered_events = 1
        /\ \A k \in 1..2 : ~ec.metrics.events[k].is_covered

\* the loop counted no event as a holiday event: no check passed on a holiday
\* of the rule's country and no check was deferred with a holiday reason
NoHolidayEligible ==
    ec.num_event_in_holiday = 0 /\ ec.num_event_in_holiday_covered = 0

\* C12: whenever event_coverage returns and no event of the input list, of
\* any length, was holiday-eligible, the holiday totals are 1 of 1 and
\* holiday_coverage_score is 100.
C12_HolidayVacuity ==
    (ec.pc = "done" /\ NoHolidayEligible) =>
        /\ ec.metrics.total_holiday_events = 1
        /\ ec.metrics.covered_holiday_events = 1
        /\ RatEq(ec.metrics.holiday_coverage_score, Hundred)

\* 0 <= score <= 100 for a score n/d with d > 0
InRange(score) ==
    score[2] > 0 /\ RatLeq(<<0, 1>>, score) /\ RatLeq(score, Hundred)

\* C13: each of coverage_score, holiday_coverage_score, open_alert_score and
\* alert_duration_score that a run returns lies in [0, 100], for every mix
\* of covered holiday events and holiday misses and every repository
\* content.
C13_ScoreRange ==
    /\ ec.pc = "done" =>
          /\ InRange(ec.metrics.coverage_score)
          /\ InRange(ec.metrics.holiday_coverage_score)
    /\ am.pc = "done" =>
          /\ InRange(am.result.open_alert_score)
          /\ InRange(am.result.alert_duration_score)

\* C15: the returned metrics hold exactly one EventDetail for each traced
\* event, whatever its classification: the number of EventDetail records
\* equals total_events.
C15_OneDetailPerEvent ==
    ec.pc = "done" => Len(ec.metrics.events) = ec.metrics.total_events

\* C23: no failure while checking one event ends the tracing: event_coverage
\* is never left by an exception, be it an unexpected failure of the check or
\* a deferral on a rule without start or end time, and the metrics it returns
\* cover all input events
C23_TracerIsolation ==
    /\ ec.pc # "raised"
    /\ ec.pc = "done" => ec.metrics.total_events = Len(ec.events)

----------------------------------------------------------------------------
(* Claims about the alert history analyzer *)

\* the AlertDetails the analyzer returned for one resource, in output order
DetailsOf(resource) ==
    LET Mine(d) == d.resource = resource
    IN SelectSeq(am.result.alert_details, Mine)

AlertsWithHistory == {k \in 1..Len(am.alerts) : am.alerts[k].history # <<>>}

\* the stored history holds, in some order, ok at t0, critical at t1 and ok
\* at t2 with t0 < t1 < t2
IsClosureHistory(h, t0, t1, t2) ==
    /\ Len(h) = 3
    /\ t0 < t1 /\ t1 < t2
    /\ \E i, j, k \in 1..3 :
          /\ {i, j, k} = {1, 2, 3}
          /\ h[i] = HistoryEntry(t0, "ok")
          /\ h[j] = HistoryEntry(t1, "critical")
          /\ h[k] = HistoryEntry(t2, "ok")

\* C2 as claimed: the history [(t0,"ok"), (t1,"critical"), (t2,"ok")] of a
\* single resource yields exactly one AlertDetail, {open_time = t1,
\* close_time = t2, duration = t2 - t1}, and zero open alerts.
C2_Original ==
    am.pc = "done" /\ Len(am.alerts) = 1 =>
        \A t0, t1, t2 \in AlertTimes :
            IsClosureHistory(am.alerts[1].history, t0, t1, t2) =>
                /\ Len(am.result.alert_details) = 1
                /\ am.result.alert_details[1].open_time = t1
                /\ am.result.alert_details[1].close_time = t2
                /\ am.result.alert_details[1].duration = t2 - t1
                /\ am.result.open_alerts = 0

\* C2 amended: a resource with the history [(t0,"ok"), (t1,"critical"),
\* (t2,"ok")] yields exactly two AlertDetails: the zero-duration record of
\* its first "ok" observation at t0, then the interval {open_time = t1,
\* close_time = t2, duration = t2 - t1}; none of them is open, and a
\* repository holding only this resource reports zero open alerts.
C2_IntervalClosure ==
    am.pc = "done" =>
        \A a \in AlertsWithHistory : \A t0, t1, t2 \in AlertTimes :
            IsClosureHistory(am.alerts[a].history, t0, t1, t2) =>
                /\ DetailsOf(am.alerts[a].resource)
                      = << AlertDetail(am.alerts[a].resource, "ok", t0, t0, 0),
                           AlertDetail(am.alerts[a].resource, "critical", t1, t2, t2 - t1) >>
                /\ AlertsWithHistory = {a} => am.result.open_alerts = 0

\* the closure history of a single resource, stored out of order, analysed
C2_Witness ==
    /\ am.pc = "done"
    /\ Len(am.alerts) = 1
    /\ am.alerts[1].history = << HistoryEntry(3600, "critical"), HistoryEntry(0, "ok"),
                                 HistoryEntry(10800, "ok") >>
    /\ Len(am.result.alert_details) = 2
    /\ am.result.alert_details[2].duration = 7200

\* the stored history holds one "ok" entry, at t0, and one or more entries
\* that are not "ok", all later than t0
IsStillOpenHistory(h, t0) ==
    /\ Len(h) >= 2
    /\ Cardinality({k \in 1..Len(h) : h[k].severity = "ok"}) = 1
    /\ \A k \in 1..Len(h) :
          IF h[k].severity = "ok" THEN h[k].update_time = t0 ELSE h[k].update_time > t0

HistoryTimes(h, sevs) == {h[k].update_time : k \in {j \in 1..Len(h) : h[j].severity \in sevs}}

MinOf(S) == CHOOSE x \in S : \A y \in S : x <= y

MaxOf(S) == CHOOSE x \in S : \A y \in S : x >= y

\* C3: a resource whose history is [(t0,"ok"), (t1,"critical")], with no
\* later "ok", yields one AlertDetail with close_time = None, opened at t1,
\* whose duration is the time from t1 to the last history update; a
\* repository holding only this resource reports open_alerts = 1.
C3_StillOpen ==
    am.pc = "done" =>
        \A a \in AlertsWithHistory : \A t0 \in AlertTimes :
            IsStillOpenHistory(am.alerts[a].history, t0) =>
                LET h == am.alerts[a].history
                    mine == DetailsOf(am.alerts[a].resource)
                    open == {k \in 1..Len(mine) : mine[k].close_time = None}
                    t1 == MinOf(HistoryTimes(h, Severities \ {"ok"}))
                    last == MaxOf(HistoryTimes(h, Severities))
                IN /\ Cardinality(open) = 1
                   /\ \A k \in open : mine[k].open_time = t1 /\ mine[k].duration = last - t1
                   /\ AlertsWithHistory = {a} => am.result.open_alerts = 1

\* the history [(0,"ok"), (3600,"critical")] of a single resource, analysed
C3_Witness ==
    /\ am.pc = "done"
    /\ Len(am.alerts) = 1
    /\ am.alerts[1].history = << HistoryEntry(0, "ok"), HistoryEntry(3600, "critical") >>
    /\ am.result.open_alerts = 1
    /\ \E k \in 1..Len(am.result.alert_details) :
          am.result.alert_details[k].close_time = None

\* the sum of the interval durations the analyzer returned for a resource
RECURSIVE IntervalSum(_, _, _)
IntervalSum(details, resource, k) ==
    IF k > Len(details) THEN 0
    ELSE (IF details[k].resource = resource /\ details[k].severity # "ok"
          THEN details[k].duration ELSE 0)
         + IntervalSum(details, resource, k + 1)

IntervalCount(details, resource) ==
    Cardinality({k \in 1..Len(details) :
                    details[k].resource = resource /\ details[k].severity # "ok"})

\* C4: with R the resources with history and D those with a recorded
\* interval duration: if |D| / |R| > 0.1 the score is 100 * (resources of D
\* whose mean duration is under 7200 s) / |D|, otherwise it is 100.
C4_DurationScore ==
    am.pc = "done" =>
        LET details == am.result.alert_details
            R == {am.alerts[k].resource : k \in AlertsWithHistory}
            D == {am.alerts[k].resource :
                    k \in {a \in AlertsWithHistory :
                              \E j \in 1..Len(am.alerts[a].history) :
                                  am.alerts[a].history[j].severity # "ok"}}
            zero == {r \in D : IntervalSum(details, r, 1) < 7200 * IntervalCount(details, r)}
        IN /\ \A r \in R : (r \in D) <=> (IntervalCount(details, r) > 0)
           /\ IF 10 * Cardinality(D) > Cardinality(R)
              THEN RatEq(am.result.alert_duration_score,
                         <<100 * Cardinality(zero), Cardinality(D)>>)
              ELSE RatEq(am.result.alert_duration_score, <<100, 1>>)

\* two resources with mean durations 3600 s and 10800 s score 50
C4_Witness ==
    /\ am.pc = "done"
    /\ Len(am.alerts) = 2
    /\ am.alerts[1].history = << HistoryEntry(0, "critical"), HistoryEntry(3600, "ok") >>
    /\ am.alerts[2].history = << HistoryEntry(0, "critical"), HistoryEntry(10800, "ok") >>
    /\ am.result.alert_duration_score[1] * 1 = 50 * am.result.alert_duration_score[2]

\* the entries of a history that carry its greatest update_time
LatestEntries(h) ==
    {k \in 1..Len(h) : \A j \in 1..Len(h) : h[j].update_time <= h[k].update_time}

\* C5: the open-alert score is 100 * (resources whose history entry with the
\* greatest update_time is "ok") / (resources with history), and 100 when no
\* resource has history.  Where several entries share the greatest
\* update_time, the entry meant is one of them.
C5_OpenAlertScore ==
    am.pc = "done" =>
        LET n == Cardinality(AlertsWithHistory)
            surelyOk == {a \in AlertsWithHistory :
                            \A k \in LatestEntries(am.alerts[a].history) :
                                am.alerts[a].history[k].severity = "ok"}
            maybeOk == {a \in AlertsWithHistory :
                            \E k \in LatestEntries(am.alerts[a].history) :
                                am.alerts[a].history[k].severity = "ok"}
        IN IF n = 0 THEN am.result.open_alert_score = <<100, 1>>
           ELSE /\ am.result.open_alert_score[2] = n
                /\ \E ok \in Cardinality(surelyOk)..Cardinality(maybeOk) :
                      am.result.open_alert_score[1] = 100 * ok

\* two resources, one whose latest entry is "ok" and one whose latest entry,
\* stored first, is not: the score is 50
C5_Witness ==
    /\ am.pc = "done"
    /\ Len(am.alerts) = 2
    /\ am.alerts[1].history = << HistoryEntry(3600, "critical"), HistoryEntry(0, "ok") >>
    /\ am.alerts[2].history = << HistoryEntry(0, "critical"), HistoryEntry(3600, "ok") >>
    /\ am.result.open_alert_score = <<100, 2>>

\* the AlertDetails the analyzer returned that have a close_time
ClosedDetails ==
    {k \in 1..Len(am.result.alert_details) : am.result.alert_details[k].close_time # None}

\* the stored history of the resource has an entry of that severity class at
\* the time t
HasEntryAt(resource, t, isOk) ==
    \E a \in 1..Len(am.alerts) : \E k \in 1..Len(am.alerts[a].history) :
        /\ am.alerts[a].resource = resource
        /\ am.alerts[a].history[k].update_time = t
        /\ (am.alerts[a].history[k].severity = "ok") = isOk

\* C14 as stated: every AlertDetail that has a close_time has
\* close_time > open_time, strictly.
C14_Original ==
    am.pc = "done" =>
        \A k \in ClosedDetails :
            am.result.alert_details[k].close_time > am.result.alert_details[k].open_time

\* C14 amended: every AlertDetail that has a close_time has
\* close_time >= open_time and duration = close_time - open_time.  The two
\* are equal for the zero-duration record of a resource's first "ok"
\* observation (severity "ok") and for an interval whose opening entry and
\* closing "ok" entry carry the same update_time; otherwise close_time is
\* strictly later.
C14_CloseNotBeforeOpen ==
    am.pc = "done" =>
        \A k \in ClosedDetails :
            LET d == am.result.alert_details[k]
            IN /\ d.close_time >= d.open_time
               /\ d.duration = d.close_time - d.open_time
               /\ d.severity = "ok" => d.close_time = d.open_time
               /\ (d.severity # "ok" /\ d.close_time = d.open_time) =>
                     /\ HasEntryAt(d.resource, d.open_time, FALSE)
                     /\ HasEntryAt(d.resource, d.open_time, TRUE)

\* one resource, stored out of order: the zero-duration record of its first
\* "ok" at 0 and the interval from 3600 to 10800
C14_Witness ==
    /\ am.pc = "done"
    /\ Len(am.alerts) = 1
    /\ am.alerts[1].history = << HistoryEntry(10800, "ok"), HistoryEntry(3600, "critical"),
                                 HistoryEntry(0, "ok") >>
    /\ am.result.alert_details
          = << AlertDetail(1, "ok", 0, 0, 0), AlertDetail(1, "critical", 3600, 10800, 7200) >>

\* C27: open_alerts equals the number of resources that the open alert score
\* counts as non-ok, so that open_alert_score = 100 * (1 - open_alerts /
\* resources with history), with tied update_times as well
C27_OpenAlertsAgree ==
    am.pc = "done" =>
        LET resources_with_history == Cardinality({am.alerts[k].resource : k \in AlertsWithHistory})
        IN IF resources_with_history = 0
           THEN am.result.open_alerts = 0 /\ RatEq(am.result.open_alert_score, Hundred)
           ELSE RatEq(am.result.open_alert_score,
                      Percent(resources_with_history - am.result.open_alerts,
                              resources_with_history))

----------------------------------------------------------------------------
(* Claims about the important-time selector *)

SelTimes == {sel.important_times[k] : k \in 1..Len(sel.important_times)}

\* C6: on the dense and on the sparse path the selector returns a strictly
\* ascending sequence of instants, all of them in [start, end].
C6_SortedDistinctInRange ==
    sel.pc = "done" =>
        /\ \A k \in 1..Len(sel.important_times) :
              sel.start_date <= sel.important_times[k] /\ sel.important_times[k] <= sel.end_date
        /\ \A j, k \in 1..Len(sel.important_times) :
              j < k => sel.important_times[j] < sel.important_times[k]

\* a sparse call whose candidate set held an instant before start (5 minutes
\* before the event at 100) and which returned several instants
C6_Witness ==
    /\ sel.pc = "done"
    /\ ~IsDense(sel.start_date, sel.end_date, sel.events)
    /\ sel.start_date = 0
    /\ \E k \in 1..Len(sel.events) : sel.events[k] = 100
    /\ Len(sel.important_times) >= 4
    /\ 400 \in SelTimes

CeilDiv(a, b) == (a + b - 1) \div b

IsEvenGrid(times, start, step) == \A k \in 1..Len(times) : times[k] = start + (k - 1) * step

\* C7 as claimed: with events_per_day > 30 and step = 1800 the selector
\* returns exactly ceil((end - start) / 1800) + 1 instants, evenly spaced by
\* 1800 s from start, for every start <= end.
C7_Original ==
    /\ sel.pc = "done"
    /\ IsDense(sel.start_date, sel.end_date, sel.events)
    /\ sel.step = 1800
    /\ sel.start_date <= sel.end_date
    => /\ Len(sel.important_times) = CeilDiv(sel.end_date - sel.start_date, 1800) + 1
       /\ IsEvenGrid(sel.important_times, sel.start_date, 1800)

\* C7 amended: with events_per_day > 30 and step = 1800 the selector returns
\* exactly floor((end - start) / 1800) + 1 instants, evenly spaced by 1800 s
\* from start, for every start <= end; the rule is not looked at.
C7_DenseGrid ==
    /\ sel.pc = "done"
    /\ IsDense(sel.start_date, sel.end_date, sel.events)
    /\ sel.step = 1800
    /\ sel.start_date <= sel.end_date
    => /\ Len(sel.important_times) = ((sel.end_date - sel.start_date) \div 1800) + 1
       /\ IsEvenGrid(sel.important_times, sel.start_date, 1800)

\* a dense call with step 1800 over a period that is no multiple of 1800 s
C7_Witness ==
    /\ sel.pc = "done"
    /\ IsDense(sel.start_date, sel.end_date, sel.events)
    /\ sel.step = 1800
    /\ sel.start_date = 72100 /\ sel.end_date = 140000
    /\ Len(sel.important_times) = 38

\* the candidate instants of the sparse path, stated over the days, the
\* datetime ranges and the events
SparseCandidates(rule, start, end, events) ==
    LET off == IF rule.has_timezone THEN rule.tz ELSE 0
        days == LocalDate(start, off)..LocalDate(end, off)
        windows == rule.window_include \o rule.window_exclude
        ranges == UNION { {windows[w].check_datetime_ranges[r] :
                              r \in 1..Len(windows[w].check_datetime_ranges)} :
                          w \in {x \in 1..Len(windows) :
                                    windows[x].type = "check_datetime_window"} }
        overlapping == {g \in ranges : g.start_datetime <= end /\ g.end_datetime >= start}
        inside == {events[k] : k \in {j \in 1..Len(events) : start <= events[j] /\ events[j] <= end}}
    IN (IF rule.start_time = None THEN {}
        ELSE {d * SecondsPerDay + rule.start_time - off : d \in days})
       \cup (IF rule.end_time = None THEN {}
             ELSE {d * SecondsPerDay + rule.end_time - off : d \in days})
       \cup {g.start_datetime : g \in overlapping}
       \cup {g.end_datetime : g \in overlapping}
       \cup {ts - 300 : ts \in inside}
       \cup {ts + 300 : ts \in inside}

\* C8: when events_per_day <= 30 the output is exactly the candidate set
\* restricted to [start, end]: the rule's daily start and end instants of
\* every day of the range in the rule's timezone, both boundaries of every
\* datetime-window range overlapping the range, and ts - 5min and ts + 5min
\* for every event with start <= ts <= end.
C8_SparseCandidates ==
    /\ sel.pc = "done"
    /\ ~IsDense(sel.start_date, sel.end_date, sel.events)
    => SelTimes = {t \in SparseCandidates(sel.rule, sel.start_date, sel.end_date, sel.events) :
                      sel.start_date <= t /\ t <= sel.end_date}

\* the rule with daily window 09:00-17:00 UTC and events at 08:00, 12:00 and
\* 20:00 of one day: the output holds 09:00, 17:00 and 5 minutes before and
\* after each event
C8_Witness ==
    /\ sel.pc = "done"
    /\ sel.rule.start_time = 32400 /\ sel.rule.end_time = 61200 /\ sel.rule.tz = 0
    /\ sel.start_date = 0 /\ sel.end_date = 86400
    /\ sel.events = <<28800, 43200, 72000>>
    /\ {32400, 61200, 28500, 29100, 42900, 43500, 71700, 72300} \subseteq SelTimes

\* C21: a second call of the selector with the same rule, start, end, events
\* and step returns the same instants in the same order as the first,
\* whatever order the set of candidates is enumerated in; the calls leave
\* the rule and the events as they were.
C21_IdempotentSelection ==
    sel.pc = "again" => sel.again = sel.important_times

\* two calls on the sparse path that returned the same six instants
C21_Witness ==
    /\ sel.pc = "again"
    /\ ~IsDense(sel.start_date, sel.end_date, sel.events)
    /\ Len(sel.important_times) = 6
    /\ sel.again = sel.important_times

----------------------------------------------------------------------------
(* Claims about the replay driver *)

\* the sequences that hold the entries of h in some order
Reorderings(h) ==
    { [k \in 1..Len(h) |-> h[p[k]]] :
        p \in { q \in [1..Len(h) -> 1..Len(h)] :
                  \A a, b \in 1..Len(h) : a # b => q[a] # q[b] } }

\* the repository with the history of its a-th alert stored as h
WithHistory(repository, a, h) ==
    [k \in 1..Len(repository) |->
        IF k = a THEN [repository[k] EXCEPT !.history = h] ELSE repository[k]]

StoredAt(t) ==
    { <<a, k>> \in (1..Len(rp.repository)) \X (1..Len(rp.evaluated) + 1) :
         /\ k <= Len(rp.repository[a].history)
         /\ rp.repository[a].history[k].update_time = t }

ReturnedAt(t) == { k \in 1..Len(rp.alerts) : rp.alerts[k].create_time = t }

\* C17: an instant whose evaluation raised the deferred signal or any other
\* exception stores no alert, and the loop goes on: it evaluates every one
\* of the len(important_times) instants, and the replay then returns the
\* scores computed from the repository.
C17_FailureIsolation ==
    /\ rp.pc \in {"loop", "done"} =>
          /\ Len(rp.outcomes) = Len(rp.evaluated)
          /\ rp.evaluated = SubSeq(rp.important_times, 1, rp.i - 1)
          /\ \A k \in 1..Len(rp.outcomes) :
                rp.outcomes[k] \in {"deferred", "exception"} =>
                    StoredAt(rp.evaluated[k]) = {} /\ ReturnedAt(rp.evaluated[k]) = {}
    /\ (rp.pc = "done" /\ rp.events # <<>>) =>
          /\ rp.evaluated = rp.important_times
          /\ rp.metrics.simulation_times = Len(rp.important_times)
          /\ rp.metrics.open_alert_score = calculate_open_alert_score(rp.repository)
          /\ rp.metrics.alert_duration_score
                = calculate_alert_duration(rp.repository).alert_duration_score

\* the first instant raised an exception, the second was deferred, and the
\* third and fourth were still evaluated and stored their alerts
C17_Witness ==
    /\ rp.pc = "done"
    /\ Len(rp.important_times) = 4
    /\ rp.outcomes = << "exception", "deferred", "alerts", "alerts" >>
    /\ Len(rp.repository) = 1
    /\ Len(rp.repository[1].history) = 2
    /\ rp.metrics.simulation_times = 4

\* the instant of the latest rule evaluation: an event's time in the
\* tracer, a simulation instant in the replay driver
LatestInstant ==
    IF rp.pc # "idle" /\ rp.evaluated # <<>> THEN rp.evaluated[Len(rp.evaluated)]
    ELSE IF ec.total > 0 THEN ec.events[ec.total].timestamp
    ELSE None

\* C18: every rule evaluation, at a simulation instant of the replay driver
\* or at an event of the coverage tracer, runs with the global time
\* override set to that instant and finds translated_pattern,
\* translated_partition and rule_start_timestamp reset: it observes no value
\* cached at an earlier instant or event.
C18_CacheReset ==
    rc.seen.now # None =>
        /\ rc.seen.now = LatestInstant
        /\ rc.seen.translated_pattern = None
        /\ rc.seen.translated_partition = None
        /\ rc.seen.rule_start_timestamp = None

\* C19: for every replay, the one over an empty event list and the one that
\* emitted no alert included, the returned open_alert_score,
\* alert_duration_score, alert details and open_alerts are what the analyzer
\* computes from the final repository; an empty repository gives 100 for
\* both scores.
C19_ScoresFromRepository ==
    rp.pc = "done" =>
        LET d == calculate_alert_duration(rp.repository)
        IN /\ rp.metrics.open_alert_score = calculate_open_alert_score(rp.repository)
           /\ rp.metrics.alert_duration_score = d.alert_duration_score
           /\ rp.metrics.alerts = d.alert_details
           /\ rp.metrics.open_alerts = d.open_alerts
           /\ rp.repository = <<>> =>
                 /\ RatEq(rp.metrics.open_alert_score, Hundred)
                 /\ RatEq(rp.metrics.alert_duration_score, Hundred)

----------------------------------------------------------------------------
(* Claims about the score combiner *)

\* C20: final_score = (alert_duration_score * 0.75 + open_alert_score * 0.75
\* + coverage_score * 1.0 + holiday_coverage_score * 0.5) / 3 for every
\* scoring run, a sub-score of 0 included: with the scores as ratios n/d,
\* 12 * final_score = 3 * duration + 3 * open + 4 * coverage + 2 * holiday.
C20_FinalScore ==
    sr.pc = "done" =>
        LET du == rp.metrics.alert_duration_score
            op == rp.metrics.open_alert_score
            co == ec.metrics.coverage_score
            ho == ec.metrics.holiday_coverage_score
        IN /\ sr.final_score[2] > 0
           /\ 12 * sr.final_score[1] * du[2] * op[2] * co[2] * ho[2]
                 = sr.final_score[2] * ( 3 * du[1] * op[2] * co[2] * ho[2]
                                       + 3 * op[1] * du[2] * co[2] * ho[2]
                                       + 4 * co[1] * du[2] * op[2] * ho[2]
                                       + 2 * ho[1] * du[2] * op[2] * co[2] )

\* a run whose one event is not covered (coverage_score 0) while the other
\* three sub-scores are 100: final_score = (75 + 75 + 0 + 50) / 3
C20_Witness ==
    /\ sr.pc = "done"
    /\ ec.metrics.coverage_score[1] = 0
    /\ RatEq(ec.metrics.holiday_coverage_score, Hundred)
    /\ RatEq(rp.metrics.open_alert_score, Hundred)
    /\ RatEq(rp.metrics.alert_duration_score, Hundred)
    /\ RatEq(sr.final_score, <<200, 3>>)

----------------------------------------------------------------------------
(* Claims about the batch runner                                            *)

ErrorResult(rule_id) == << rule_id, "ERROR", "ERROR", "0.00" >>

\* the result of a rule whose pipeline completed, whatever happened to the
\* other rules of the run
CleanResult(rule_id, fate) ==
    << rule_id, OriginalScore(rule_id),
       IF fate = "no_suggestion" THEN "N/A" ELSE SuggestedScore(rule_id), "1.00" >>

Finished == { k \in 1..Len(pa.futures) : pa.futures[k].state = "finished" }

InFile(line) == \E n \in 1..Len(pa.file) : pa.file[n] = line

InParallelRun == pa.mode = "parallel" /\ pa.pc \in {"collect", "join", "returned", "raised"}

\* C28: whenever run_parallel_analysis is left, by returning or because a
\* future raised, the writer has received "STOP" and terminated, and the
\* summary file holds a line for every rule submitted, written by the writer
C28_WriterStops ==
    (pa.mode = "parallel" /\ pa.pc \in {"returned", "raised"}) =>
        /\ pa.writer = "stopped"
        /\ \A k \in 1..Len(pa.futures) :
              pa.futures[k].state = "finished" /\ InFile(pa.futures[k].result)

\* C29: a rule is submitted exactly when its id is not the first field of a
\* line of the summary file found at the start of the run, and each rule id
\* is on at most one line of the file
C29_ResumeCache ==
    /\ InParallelRun =>
          \A id \in RuleIds :
              (\E k \in 1..Len(pa.futures) : pa.futures[k].rule_id = id)
                  <=> (/\ \E n \in 1..Len(pa.rules) : pa.rules[n] = id
                       /\ id \notin pa.processed_rule_ids)
    /\ \A m, n \in 1..Len(pa.file) :
          FirstField(pa.file[m]) = FirstField(pa.file[n]) => m = n

----------------------------------------------------------------------------
(* Claims about patch_rule *)

\* C26: when patch_rule has returned, window_exclude holds no window whose
\* class name contains "DateThreshold", whatever the list was, and the other
\* windows are all there in their order
C26_NoDateThreshold ==
    pr.pc = "returned" =>
        LET Other(r) == ~IsDateThreshold(r)
        IN /\ \A k \in 1..Len(pr.window_exclude) : ~IsDateThreshold(pr.window_exclude[k])
           /\ pr.window_exclude = SelectSeq(pr.original, Other)

----------------------------------------------------------------------------
(* Claims about the timezone suggestion *)

\* the strategies whose result carries a timezone
WithTimezone == { k \in 1..Len(tz.results) : HasTimezone(tz.results[k]) }

\* C30: with the metrics present, a user-supplied timezone is returned
\* whatever the strategies say; otherwise the result returned is, among the
\* strategy results that carry a timezone, the earliest of those whose
\* delay_code ranks best in T < B < C < b < c, and None when there is none
C30_BestRank ==
    (tz.pc = "returned" /\ tz.has_metrics) =>
        IF HasTimezone(tz.user_result) THEN tz.returned = tz.user_result
        ELSE IF WithTimezone = {} THEN tz.returned = NoResult
        ELSE \E k \in WithTimezone :
                /\ tz.returned = tz.results[k]
                /\ \A j \in WithTimezone :
                      /\ PriorityOrder(tz.results[k].delay_code)
                            <= PriorityOrder(tz.results[j].delay_code)
                      /\ j < k => PriorityOrder(tz.results[k].delay_code)
                                     < PriorityOrder(tz.results[j].delay_code)

----------------------------------------------------------------------------
(* Claims about the suggestion generator *)

\* the metrics an algorithm requires with requires_metrics
RequiredMetrics(name) ==
    CASE name = "timezone" -> {"count_weekday_distribution", "count_date_label_lag_distribution",
                               "count_30_min_distribution"}
      [] name = "check_windows" -> {"count_weekday_distribution", "count_30_min_distribution",
                                    "holiday_metrics"}
      [] name = "file_age" -> {"age_distribution"}
      [] name = "file_count" -> {"count_percentiles"}
      [] name = "file_ownership" -> {"ownership_distribution"}
      [] name = "file_size" -> {"size_percentiles"}

\* C24: generate never raises because of the statistics: an algorithm with a
\* required metric attribute absent, or with an empty percentile or
\* distribution dictionary, gives no suggestion and nothing is raised
C24_AbstainNotRaise ==
    /\ sg.pc # "raised"
    /\ \A name \in sg.called :
          (\/ \E m \in RequiredMetrics(name) : sg.statistics[m] = "absent"
           \/ /\ name \in {"file_age", "file_count", "file_ownership"}
              /\ \E m \in RequiredMetrics(name) : sg.statistics[m] = "empty")
              => name \notin sg.suggestions

----------------------------------------------------------------------------
(* Claims about the analysis workflow *)

\* the configuration of a rule object
Configuration(rule) ==
    << rule.timezone, rule.window_include, rule.window_exclude, rule.constraints, rule.pattern >>

\* the step of analyze_rule that calls to_rule leaves the configuration of
\* the rule it was given as it is
OriginalKept ==
    wf.pc = "scorev2" => Configuration(wf'.heap[wf.rule]) = Configuration(wf.heap[wf.rule])

\* what analyze_rule has in hand when the suggested rule was scored
FeedbackScored ==
    /\ wf.suggested_rule # 0 =>
          /\ wf.suggested_rule # wf.rule
          /\ Len(wf.scored) = 2
          /\ wf.scored[1][1] = wf.rule /\ wf.scored[2][1] = wf.suggested_rule
          /\ wf.scored[1][2] = wf.scored[2][2]
          /\ wf.scored[1][3] = wf.scored[2][3] /\ wf.scored[1][4] = wf.scored[2][4]
    /\ "score_improvement" \in wf.analysis_results =>
          /\ ~wf.suggestions.is_none /\ wf.step = "scorev2"
          /\ wf.score_improvement = wf.suggested_score - wf.original_score
    /\ (wf.pc = "returned" /\ wf.step = "scorev2" /\ ~wf.suggestions.is_none) =>
          "score_improvement" \in wf.analysis_results

\* C25: at step scorev2 the suggestions are applied to a deep copy: to_rule
\* leaves the timezone, windows, constraints and pattern of the original rule
\* unchanged, the two scoring runs get the same events and the same date
\* range, and score_improvement is suggested_score.final_score minus
\* original_score.final_score, present only when suggestions were produced
C25_FeedbackOnClone == [][OriginalKept]_vars /\ []FeedbackScored

\* a rule with a constraint and an excluded window was scored, suggestions
\* with another timezone and windows were applied and scored 50 points better
C25_Witness ==
    /\ wf.pc = "returned"
    /\ wf.suggested_rule = 2
    /\ ~wf.suggestions.is_none /\ wf.suggestions.check_windows
    /\ wf.suggestions.timezone = "Europe/London"
    /\ wf.heap[1].timezone = "Asia/Tokyo" /\ wf.heap[2].timezone = "Europe/London"
    /\ wf.heap[1].constraints = << "FileSizeThresholdConstraint" >>
    /\ wf.heap[2].constraints = <<>>
    /\ wf.heap[1].window_exclude # <<>>
    /\ wf.score_improvement = 50

=============================================================================
